---- MODULE Spec2Model ----
(***************************************************************************)
(* Markdown Rules MCP server: the document index (DocIndexService) and the *)
(* context assembly (DocContextService).                                   *)
(*                                                                         *)
(* A path is a small integer; the order of the integers stands for the     *)
(* order String.localeCompare gives to the absolute file paths.            *)
(***************************************************************************)
EXTENDS Integers, Sequences, FiniteSets, TLC

\* ------------------------------------------------------------------ bounds
MaxLinks == 2      \* links in all the files together
MaxOddFiles == 1   \* files that are not readable, well-formed markdown
MaxBuilds == 2     \* buildIndex() calls
MaxRequests == 1   \* fetches started by getDoc() calls from outside buildIndex
MaxAttached == 2   \* length of attachedFiles
MaxFrontMatter == 1 \* documents with front matter, for context assembly

Paths == 1..3

\* ------------------------------------------------------------ state
VARIABLES
  fs,                  \* the files on disk: path -> what reading and parsing it gives
  globFiles,           \* what fileSystem.findFiles() returns
  hoist,               \* config.HOIST_CONTEXT
  docMap,              \* DocIndexService.docMap, entries in insertion order
  pendingDocPromises,  \* DocIndexService.pendingDocPromises: path -> load (0: no entry)
  loads,               \* every fetchPromise created so far
  cycle,               \* number of buildIndex() calls so far
  build,               \* position of the buildIndex() call in progress
  requests,            \* number of fetches started by getDoc() calls from outside buildIndex
  context              \* last buildContextItems() call: its inputs and its result

vars == <<fs, globFiles, hoist, docMap, pendingDocPromises, loads, cycle, build,
          requests, context>>

\* ------------------------------------------------------------ helpers
SeqsUpTo(S, n) == UNION {[1..k -> S] : k \in 0..n}

Range(s) == {s[i] : i \in 1..Len(s)}

RECURSIVE SetToSeq(_)
SetToSeq(S) ==
  IF S = {} THEN <<>>
  ELSE LET m == CHOOSE x \in S : \A y \in S : x <= y
       IN <<m>> \o SetToSeq(S \ {m})

\* ------------------------------------------------------------ documents
BlankMeta == [description |-> "", globs |-> <<>>, alwaysApply |-> FALSE]

getBlankDoc(fileName, isError, isMd, oid) ==
  [filePath |-> fileName, meta |-> BlankMeta, linksTo |-> <<>>,
   isMarkdown |-> isMd, isError |-> isError, oid |-> oid]

isMarkdown(fileName) == fs[fileName].isMarkdown

\* DocParserService.parse never throws: a front-matter failure gives isError
parse(fileName, oid) ==
  IF fs[fileName].parseOk
  THEN [getBlankDoc(fileName, FALSE, isMarkdown(fileName), oid)
          EXCEPT !.meta = fs[fileName].meta]
  ELSE getBlankDoc(fileName, TRUE, isMarkdown(fileName), oid)

\* ------------------------------------------------------------ extractLinks
\* The text of a file is the list of the markdown links [anchor](target?query)
\* in it, each with its anchor text, the absolute path its target resolves
\* to, and the parameters of its query. A string is the sequence of its
\* characters.
LINK_PARAM == "md-link"
EMBED_PARAM == "md-embed"

UpperCaseLetters ==
  <<"A", "B", "C", "D", "E", "F", "G", "H", "I", "J", "K", "L", "M",
    "N", "O", "P", "Q", "R", "S", "T", "U", "V", "W", "X", "Y", "Z">>
LowerCaseLetters ==
  <<"a", "b", "c", "d", "e", "f", "g", "h", "i", "j", "k", "l", "m",
    "n", "o", "p", "q", "r", "s", "t", "u", "v", "w", "x", "y", "z">>
DecimalDigits == <<"0", "1", "2", "3", "4", "5", "6", "7", "8", "9">>

\* String.prototype.toLowerCase
toLowerCase(str) ==
  [i \in 1..Len(str) |->
     IF \E k \in 1..Len(UpperCaseLetters) : UpperCaseLetters[k] = str[i]
     THEN LowerCaseLetters[CHOOSE k \in 1..Len(UpperCaseLetters) : UpperCaseLetters[k] = str[i]]
     ELSE str[i]]

RECURSIVE split(_, _)
\* String.prototype.split(separator) for a separator of one character
split(str, separator) ==
  IF \A i \in 1..Len(str) : str[i] # separator THEN <<str>>
  ELSE LET i == CHOOSE j \in 1..Len(str) :
                  str[j] = separator /\ \A k \in 1..(j - 1) : str[k] # separator
       IN <<SubSeq(str, 1, i - 1)>> \o split(SubSeq(str, i + 1, Len(str)), separator)

RECURSIVE decimal(_)
\* the value of a string of decimal digits
decimal(str) ==
  IF str = <<>> THEN 0
  ELSE 10 * decimal(SubSeq(str, 1, Len(str) - 1))
       + ((CHOOSE d \in 1..10 : DecimalDigits[d] = str[Len(str)]) - 1)

\* a number that is not NaN: numerator / denominator, the denominator the
\* smallest power of ten that will do, so that an integer has denominator 1
RECURSIVE Decimal(_, _)
Decimal(numerator, denominator) ==
  IF denominator > 1 /\ numerator % 10 = 0
  THEN Decimal(numerator \div 10, denominator \div 10)
  ELSE [numerator |-> numerator, denominator |-> denominator]

Integer(n) == Decimal(n, 1)

\* Number.isInteger
isInteger(number) == number.denominator = 1

\* a > b
GreaterThan(a, b) == a.numerator * b.denominator > b.numerator * a.denominator

RECURSIVE PowerOfTen(_)
PowerOfTen(n) == IF n = 0 THEN 1 ELSE 10 * PowerOfTen(n - 1)

isDigits(str) == \A i \in 1..Len(str) : \E d \in 1..10 : DecimalDigits[d] = str[i]

\* Number(str) for a string of digits, letters and points (StringToNumber on
\* an unsigned decimal literal): 0 for the empty string, digits with an
\* optional fraction after a point and an optional exponent after e or E, and
\* NaN for everything else
Number(str) ==
  LET NaN == [isNaN |-> TRUE, value |-> Integer(0)]
      scaled == split(toLowerCase(str), "e")
      mantissa == split(scaled[1], ".")
      whole == mantissa[1]
      fraction == IF Len(mantissa) = 2 THEN mantissa[2] ELSE <<>>
      exponent == IF Len(scaled) = 2 THEN scaled[2] ELSE <<>>
  IN IF str = <<>> THEN [isNaN |-> FALSE, value |-> Integer(0)]
     ELSE IF Len(scaled) > 2 \/ Len(mantissa) > 2 THEN NaN
     ELSE IF ~isDigits(whole) \/ ~isDigits(fraction) \/ ~isDigits(exponent) THEN NaN
     ELSE IF whole = <<>> /\ fraction = <<>> THEN NaN
     ELSE IF Len(scaled) = 2 /\ exponent = <<>> THEN NaN
     ELSE [isNaN |-> FALSE,
           value |-> Decimal(decimal(whole \o fraction) * PowerOfTen(decimal(exponent)),
                             PowerOfTen(Len(fraction)))]

\* new URL(cleanedLinkTarget, "file:///"): throws on a target that is no URL
URL(match) ==
  [threw |-> match.fault = "url", searchParams |-> match.searchParams]

\* fileSystem.resolvePath(sourceDir, cleanedRelativePath)
resolvePath(match) ==
  [threw |-> match.fault = "path", path |-> match.filePath]

\* url.searchParams.get(param): null when the parameter is absent
searchParamsGet(url, param) ==
  IF param \in DOMAIN url.searchParams
  THEN [isNull |-> FALSE, value |-> url.searchParams[param]]
  ELSE [isNull |-> TRUE, value |-> <<>>]

isParamTruthy(url, param) ==
  LET paramValue == searchParamsGet(url, param)
  IN ~paramValue.isNull
     /\ (paramValue.value = <<"t", "r", "u", "e">> \/ paramValue.value = <<"1">>)

\* the value of md-embed is compared as it is written
isEmbedParamPresentAndNotFalseExact(url) ==
  LET embedParamValue == searchParamsGet(url, EMBED_PARAM)
  IN ~embedParamValue.isNull /\ embedParamValue.value # <<"f", "a", "l", "s", "e">>

isEmbedParamPresentAndNotFalse(url) ==
  LET embedParamValue == searchParamsGet(url, EMBED_PARAM)
  IN ~embedParamValue.isNull
     /\ toLowerCase(embedParamValue.value) # <<"f", "a", "l", "s", "e">>

\* inlineLinesRange: undefined, or from and to, where to is a number or "end"
Undefined == [isUndefined |-> TRUE, from |-> Integer(0), toEnd |-> FALSE, to |-> Integer(0)]
DocLinkRange(from, toEnd, to) ==
  [isUndefined |-> FALSE, from |-> from, toEnd |-> toEnd, to |-> to]

\* the range of an md-embed value, were from > to let through
inlineLinesRangeUnordered(rangeString) ==
  LET parts == split(rangeString, "-")
  IN IF Len(parts) = 2
     THEN LET fromNum == IF parts[1] = <<>> THEN Number(<<"0">>) ELSE Number(parts[1])
              toEnd == parts[2] = <<>> \/ toLowerCase(parts[2]) = <<"e", "n", "d">>
              toNum == Number(parts[2])
          IN IF ~fromNum.isNaN /\ (toEnd \/ ~toNum.isNaN)
             THEN DocLinkRange(fromNum.value, toEnd,
                               IF toEnd THEN Integer(0) ELSE toNum.value)
             ELSE Undefined
     ELSE Undefined

\* the range that parseEmbedParameter reads from the value of md-embed
inlineLinesRangeOf(rangeString) ==
  LET parts == split(rangeString, "-")
  IN IF Len(parts) = 2
     THEN LET fromNum == IF parts[1] = <<>> THEN Number(<<"0">>) ELSE Number(parts[1])
              toEnd == parts[2] = <<>> \/ toLowerCase(parts[2]) = <<"e", "n", "d">>
              toNum == Number(parts[2])
          IN IF ~fromNum.isNaN /\ (toEnd \/ ~toNum.isNaN)
             THEN IF ~toEnd /\ GreaterThan(fromNum.value, toNum.value)
                  THEN Undefined
                  ELSE DocLinkRange(fromNum.value, toEnd,
                                    IF toEnd THEN Integer(0) ELSE toNum.value)
             ELSE Undefined
     ELSE Undefined

\* md-embed marks the link as embedded whenever it is there
parseEmbedParameterPresent(url) ==
  LET embedParamValue == searchParamsGet(url, EMBED_PARAM)
  IN IF embedParamValue.isNull
     THEN [isInline |-> FALSE, inlineLinesRange |-> Undefined]
     ELSE [isInline |-> TRUE, inlineLinesRange |-> inlineLinesRangeOf(embedParamValue.value)]

parseEmbedParameter(url) ==
  LET embedParamValue == searchParamsGet(url, EMBED_PARAM)
      isInline == isEmbedParamPresentAndNotFalse(url)
  IN IF ~isInline \/ embedParamValue.isNull
     THEN [isInline |-> FALSE, inlineLinesRange |-> Undefined]
     ELSE [isInline |-> isInline, inlineLinesRange |-> inlineLinesRangeOf(embedParamValue.value)]

shouldProcessLink(url) ==
  isParamTruthy(url, LINK_PARAM) \/ isEmbedParamPresentAndNotFalse(url)

\* the link pushed for a match that is processed
DocLinkOf(match) ==
  LET embed == parseEmbedParameter(URL(match))
  IN [filePath |-> resolvePath(match).path,
      isInline |-> embed.isInline,
      inlineLinesRange |-> embed.inlineLinesRange,
      anchorText |-> match.anchorText]

RECURSIVE extractLinksFrom(_)
\* an error in one link is thrown to the caller, and no link is returned
extractLinksFromThrowing(docContent) ==
  IF \E k \in 1..Len(docContent) :
       \/ URL(docContent[k]).threw
       \/ shouldProcessLink(URL(docContent[k])) /\ resolvePath(docContent[k]).threw
  THEN <<>>
  ELSE LET kept == SelectSeq(docContent, LAMBDA match : shouldProcessLink(URL(match)))
       IN [k \in 1..Len(kept) |-> DocLinkOf(kept[k])]

\* the while loop of extractLinks over the matches of linkRegex in docContent;
\* the catch of a match logs and lets the loop go on
extractLinksFrom(docContent) ==
  IF docContent = <<>> THEN <<>>
  ELSE LET match == Head(docContent)
           url == URL(match)
       IN (IF url.threw THEN <<>>
           ELSE IF ~shouldProcessLink(url) THEN <<>>
           ELSE IF resolvePath(match).threw THEN <<>>
           ELSE <<DocLinkOf(match)>>) \o extractLinksFrom(Tail(docContent))

extractLinks(fileName) == extractLinksFrom(fs[fileName].text)

\* the catch branch gives a placeholder that is not marked as an error
FetchedDocUnmarked(p, oid) ==
  IF fs[p].readOk
  THEN IF isMarkdown(p)
       THEN LET doc == parse(p, oid)
            IN IF ~doc.isError THEN [doc EXCEPT !.linksTo = extractLinks(p)] ELSE doc
       ELSE getBlankDoc(p, FALSE, FALSE, oid)
  ELSE getBlankDoc(p, FALSE, isMarkdown(p), oid)

\* the catch branch gives a placeholder that is never markdown
FetchedDocSuffixLost(p, oid) ==
  IF fs[p].readOk
  THEN IF isMarkdown(p)
       THEN LET doc == parse(p, oid)
            IN IF ~doc.isError THEN [doc EXCEPT !.linksTo = extractLinks(p)] ELSE doc
       ELSE getBlankDoc(p, FALSE, FALSE, oid)
  ELSE getBlankDoc(p, TRUE, FALSE, oid)

\* the links are extracted from every file that was read
FetchedDocAlwaysScanned(p, oid) ==
  IF fs[p].readOk
  THEN IF isMarkdown(p)
       THEN [parse(p, oid) EXCEPT !.linksTo = extractLinks(p)]
       ELSE [getBlankDoc(p, FALSE, FALSE, oid) EXCEPT !.linksTo = extractLinks(p)]
  ELSE getBlankDoc(p, TRUE, isMarkdown(p), oid)

\* the node is handed on before its links are extracted
FetchedDocLinksLater(p, oid) ==
  IF fs[p].readOk
  THEN IF isMarkdown(p)
       THEN parse(p, oid)
       ELSE getBlankDoc(p, FALSE, FALSE, oid)
  ELSE getBlankDoc(p, TRUE, isMarkdown(p), oid)

\* body of the fetchPromise of getDoc, run when readFile settles
FetchedDoc(p, oid) ==
  IF fs[p].readOk
  THEN IF isMarkdown(p)
       THEN LET doc == parse(p, oid)
            IN IF ~doc.isError THEN [doc EXCEPT !.linksTo = extractLinks(p)] ELSE doc
       ELSE getBlankDoc(p, FALSE, FALSE, oid)
  ELSE getBlankDoc(p, TRUE, isMarkdown(p), oid)

\* ------------------------------------------------------------ the Map docMap
MapKeys(m) == {m[i].filePath : i \in 1..Len(m)}
MapHas(m, p) == p \in MapKeys(m)
MapGet(m, p) == m[CHOOSE i \in 1..Len(m) : m[i].filePath = p]
MapSet(m, doc) ==
  IF MapHas(m, doc.filePath)
  THEN [i \in 1..Len(m) |-> IF m[i].filePath = doc.filePath THEN doc ELSE m[i]]
  ELSE Append(m, doc)

RECURSIVE MapSetAll(_, _)
MapSetAll(m, docs) ==
  IF docs = <<>> THEN m
  ELSE CHOOSE r \in {MapSetAll(next, Tail(docs)) : next \in {MapSet(m, Head(docs))}} : TRUE

\* ------------------------------------------------------------ getDoc / getDocs
NoDoc == [filePath |-> 0]

LoadIds == 1..Len(loads)

\* what a caller of getDoc awaits: a load (fetchPromise) or, on a cache hit,
\* the Doc that was in docMap at the time of the call
HandleReady(h) == IF h.load = 0 THEN TRUE ELSE loads[h.load].done
HandleDoc(h) == IF h.load = 0 THEN h.doc ELSE loads[h.load].doc

\* getDoc without the look into pendingDocPromises
getDocUnshared(st, p) ==
  IF MapHas(docMap, p)
  THEN [st EXCEPT !.handles = Append(@, [load |-> 0, doc |-> MapGet(docMap, p)])]
  ELSE LET id == Len(st.loads) + 1
       IN [pending |-> [st.pending EXCEPT ![p] = id],
           loads |-> Append(st.loads, [path |-> p, cycle |-> cycle, done |-> FALSE,
                                       doc |-> NoDoc]),
           handles |-> Append(st.handles, [load |-> id, doc |-> NoDoc])]

\* getDoc without the look into docMap
getDocUncached(st, p) ==
  IF st.pending[p] # 0
  THEN [st EXCEPT !.handles = Append(@, [load |-> st.pending[p], doc |-> NoDoc])]
  ELSE LET id == Len(st.loads) + 1
       IN [pending |-> [st.pending EXCEPT ![p] = id],
           loads |-> Append(st.loads, [path |-> p, cycle |-> cycle, done |-> FALSE,
                                       doc |-> NoDoc]),
           handles |-> Append(st.handles, [load |-> id, doc |-> NoDoc])]

\* synchronous part of getDoc(p), up to the first await of a new fetchPromise.
\* st = [pending, loads, handles]; docMap does not change during it.
getDoc(st, p) ==
  IF MapHas(docMap, p)
  THEN [st EXCEPT !.handles = Append(@, [load |-> 0, doc |-> MapGet(docMap, p)])]
  ELSE IF st.pending[p] # 0
  THEN [st EXCEPT !.handles = Append(@, [load |-> st.pending[p], doc |-> NoDoc])]
  ELSE LET id == Len(st.loads) + 1
       IN [pending |-> [st.pending EXCEPT ![p] = id],
           loads |-> Append(st.loads, [path |-> p, cycle |-> cycle, done |-> FALSE,
                                       doc |-> NoDoc]),
           handles |-> Append(st.handles, [load |-> id, doc |-> NoDoc])]

RECURSIVE Unique(_)
\* Array.from(new Set(a)): first occurrences, in order
Unique(a) ==
  IF a = <<>> THEN <<>>
  ELSE <<Head(a)>> \o Unique(SelectSeq(Tail(a), LAMBDA x : x # Head(a)))

RECURSIVE getDocsFrom(_, _)
getDocsFrom(st, ps) ==
  IF ps = <<>> THEN st
  ELSE CHOOSE r \in {getDocsFrom(next, Tail(ps)) : next \in {getDoc(st, Head(ps))}} : TRUE

\* one getDoc per entry of the list
getDocsAll(st, ps) == getDocsFrom([st EXCEPT !.handles = <<>>], ps)

\* synchronous part of getDocs(ps): one getDoc per distinct path
getDocs(st, ps) == getDocsFrom([st EXCEPT !.handles = <<>>], Unique(ps))

Tables == [pending |-> pendingDocPromises, loads |-> loads, handles |-> <<>>]

\* ------------------------------------------------------------ buildIndex
IdleBuild ==
  [pc |-> "idle", initial |-> <<>>, pathsToProcess |-> {}, processedPaths |-> {},
   waiting |-> {}, batches |-> <<>>]

\* docMap is not cleared
BuildIndexKeepsIndex ==
  /\ build.pc \in {"idle", "done"}
  /\ cycle < MaxBuilds
  /\ cycle' = cycle + 1
  /\ pendingDocPromises' = [p \in Paths |-> 0]
  /\ build' = [IdleBuild EXCEPT !.pc = "findFiles"]
  /\ UNCHANGED <<fs, globFiles, hoist, docMap, loads, requests, context>>

\* buildIndex() up to the await of findFiles()
BuildIndex ==
  /\ build.pc \in {"idle", "done"}
  /\ cycle < MaxBuilds
  /\ cycle' = cycle + 1
  /\ docMap' = <<>>
  /\ pendingDocPromises' = [p \in Paths |-> 0]
  /\ build' = [IdleBuild EXCEPT !.pc = "findFiles"]
  /\ UNCHANGED <<fs, globFiles, hoist, loads, requests, context>>

\* loadInitialDocs(): findFiles() has resolved, getDocs(initialFilePaths) is awaited
LoadInitialDocs ==
  /\ build.pc = "findFiles"
  /\ \E st \in {getDocs(Tables, SetToSeq(globFiles))} :
       /\ pendingDocPromises' = st.pending
       /\ loads' = st.loads
       /\ build' = [build EXCEPT !.pc = "initialDocs", !.initial = st.handles]
  /\ UNCHANGED <<fs, globFiles, hoist, docMap, cycle, requests, context>>

\* loadInitialDocs(): getDocs has resolved; setDocs(initialDocs) and return the paths
SetInitialDocs ==
  /\ build.pc = "initialDocs"
  /\ \A i \in 1..Len(build.initial) : HandleReady(build.initial[i])
  /\ LET initialDocs == [i \in 1..Len(build.initial) |-> HandleDoc(build.initial[i])]
     IN /\ docMap' = MapSetAll(docMap, initialDocs)
        /\ build' = [build EXCEPT !.pc = "resolve", !.initial = <<>>,
                                  !.pathsToProcess = {d.filePath : d \in Range(initialDocs)}]
  /\ UNCHANGED <<fs, globFiles, hoist, pendingDocPromises, loads, cycle, requests, context>>

\* the linked paths are queued again whether processed or not
NewPathsToQueueAgain(targets, processedPaths, pathsToProcess) ==
  {t \in Range(targets) : t \notin pathsToProcess}

\* newPathsToQueue: the linked paths neither processed nor in the pathsToProcess buffer
NewPathsToQueue(targets, processedPaths, pathsToProcess) ==
  {t \in Range(targets) : t \notin processedPaths /\ t \notin pathsToProcess}

\* only the links that are not embedded are followed
linkedDocsNotEmbedded(doc) == SelectSeq(doc.linksTo, LAMBDA link : ~link.isInline)

\* const linkedDocs = doc.linksTo: every link, whatever its isInline
linkedDocs(doc) == doc.linksTo

\* one discovery callback of recursivelyResolveAndLoadLinks, up to its await.
\* st = [pending, loads, handles, pathsToProcess, waiting]
Discover(st, filePath, processedPaths) ==
  IF ~MapHas(docMap, filePath) THEN st
  ELSE LET doc == MapGet(docMap, filePath) IN
  IF ~doc.isMarkdown \/ doc.isError THEN st
  ELSE
    LET targets == [i \in 1..Len(linkedDocs(doc)) |-> linkedDocs(doc)[i].filePath]
        newPathsToLoad == SelectSeq(targets, LAMBDA t : ~MapHas(docMap, t))
        newPathsToQueue == NewPathsToQueue(targets, processedPaths, st.pathsToProcess)
    IN IF newPathsToLoad # <<>>
       THEN CHOOSE r \in
              {[pending |-> g.pending, loads |-> g.loads, handles |-> <<>>,
                pathsToProcess |-> st.pathsToProcess,
                waiting |-> st.waiting \cup
                            {[path |-> filePath,
                              loads |-> {g.handles[i].load : i \in 1..Len(g.handles)},
                              queue |-> newPathsToQueue]}] :
                 g \in {getDocs([pending |-> st.pending, loads |-> st.loads,
                                 handles |-> <<>>], newPathsToLoad)}} : TRUE
       ELSE [st EXCEPT !.pathsToProcess = @ \cup newPathsToQueue]

RECURSIVE DiscoverAll(_, _, _)
DiscoverAll(st, batch, processedPaths) ==
  IF batch = <<>> THEN st
  ELSE CHOOSE r \in {DiscoverAll(next, Tail(batch), processedPaths) :
                       next \in {Discover(st, Head(batch), processedPaths)}} : TRUE

\* one turn of the while loop of recursivelyResolveAndLoadLinks, up to the
\* await of Promise.all(discoveryPromises)
ProcessBatch ==
  /\ build.pc = "resolve" \/ (build.pc = "batch" /\ build.waiting = {})
  /\ build.pathsToProcess # {}
  /\ LET currentBatchPaths == SetToSeq(build.pathsToProcess)
         processed == build.processedPaths \cup build.pathsToProcess
     IN \E st \in {DiscoverAll([pending |-> pendingDocPromises, loads |-> loads,
                                handles |-> <<>>, pathsToProcess |-> {}, waiting |-> {}],
                               currentBatchPaths, processed)} :
          /\ pendingDocPromises' = st.pending
          /\ loads' = st.loads
          /\ build' = [build EXCEPT !.pc = "batch",
                                    !.processedPaths = processed,
                                    !.pathsToProcess = st.pathsToProcess,
                                    !.waiting = st.waiting,
                                    !.batches = Append(@, build.pathsToProcess)]
  /\ UNCHANGED <<fs, globFiles, hoist, docMap, cycle, requests, context>>

\* a discovery callback resumes after `await this.getDocs(newPathsToLoad)`
ResumeDiscovery ==
  /\ build.pc = "batch"
  /\ \E cb \in build.waiting :
       /\ \A l \in cb.loads : loads[l].done
       /\ build' = [build EXCEPT !.waiting = @ \ {cb},
                                 !.pathsToProcess = @ \cup cb.queue]
  /\ UNCHANGED <<fs, globFiles, hoist, docMap, pendingDocPromises, loads, cycle, requests,
                 context>>

\* the while loop ends: buildIndex() returns docMap
FinishBuild ==
  /\ build.pc = "resolve" \/ (build.pc = "batch" /\ build.waiting = {})
  /\ build.pathsToProcess = {}
  /\ build' = [build EXCEPT !.pc = "done"]
  /\ UNCHANGED <<fs, globFiles, hoist, docMap, pendingDocPromises, loads, cycle, requests,
                 context>>

\* the node is written and the finally block does not run
LoadSettlesKeepsHandle ==
  \E l \in LoadIds :
    /\ ~loads[l].done
    /\ LET p == loads[l].path
           doc == FetchedDoc(p, l)
       IN /\ docMap' = MapSet(docMap, doc)
          /\ loads' = [loads EXCEPT ![l].done = TRUE, ![l].doc = doc]
    /\ UNCHANGED <<fs, globFiles, hoist, pendingDocPromises, cycle, build, requests, context>>

\* the finally block runs, and the node is not written
LoadSettlesUnwritten ==
  \E l \in LoadIds :
    /\ ~loads[l].done
    /\ LET p == loads[l].path
           doc == FetchedDoc(p, l)
       IN /\ pendingDocPromises' = [pendingDocPromises EXCEPT ![p] = 0]
          /\ loads' = [loads EXCEPT ![l].done = TRUE, ![l].doc = doc]
    /\ UNCHANGED <<fs, globFiles, hoist, docMap, cycle, build, requests, context>>

\* readFile settles for a fetchPromise: the rest of the fetchPromise body runs
\* (try or catch, then finally)
LoadSettles ==
  \E l \in LoadIds :
    /\ ~loads[l].done
    /\ LET p == loads[l].path
           doc == FetchedDoc(p, l)
       IN /\ docMap' = MapSet(docMap, doc)
          /\ pendingDocPromises' = [pendingDocPromises EXCEPT ![p] = 0]
          /\ loads' = [loads EXCEPT ![l].done = TRUE, ![l].doc = doc]
    /\ UNCHANGED <<fs, globFiles, hoist, cycle, build, requests, context>>

\* getDoc(p) called from outside buildIndex (DocFormatterService.formatDoc).
\* The server builds the index before it serves anything (MarkdownRulesServer.run).
\* A cache hit or a fetch already in progress leaves the service as it is;
\* requests counts the calls that started a fetch.
GetDocRequest ==
  /\ cycle >= 1
  /\ \E p \in Paths :
       \E st \in {getDoc(Tables, p)} :
          /\ Len(st.loads) > Len(loads) => requests < MaxRequests
          /\ pendingDocPromises' = st.pending
          /\ loads' = st.loads
          /\ requests' = IF Len(st.loads) > Len(loads) THEN requests + 1 ELSE requests
  /\ UNCHANGED <<fs, globFiles, hoist, docMap, cycle, build, context>>

\* ------------------------------------------------------------ buildContextItems
\* files a caller can attach: the documents and two source files
SourceFiles == {Cardinality(Paths) + 1, Cardinality(Paths) + 2}
Files == Paths \cup SourceFiles

\* the attached files that a glob is to match
Matches(glob) ==
  CASE glob = "src/*.ts" -> {Cardinality(Paths) + 1}
    [] glob = "**/*.js" -> {Cardinality(Paths) + 2}
    [] OTHER -> {}

\* a path is a list of segments; dot: the segment starts with a dot
Segment(name, ext, dot) == [name |-> name, ext |-> ext, dot |-> dot]

PROJECT_ROOT == <<Segment("project", "", FALSE)>>

\* the absolute paths of the files a caller can attach:
\* /project/src/main.ts, /project/.scripts/build.js and /project/docs/<n>.md
absolutePath(file) ==
  CASE file = Cardinality(Paths) + 1 ->
         PROJECT_ROOT \o <<Segment("src", "", FALSE), Segment("main", "ts", FALSE)>>
    [] file = Cardinality(Paths) + 2 ->
         PROJECT_ROOT \o <<Segment("scripts", "", TRUE), Segment("build", "js", FALSE)>>
    [] OTHER ->
         PROJECT_ROOT \o <<Segment("docs", "", FALSE), Segment("doc", "md", FALSE)>>

\* path.relative(from, to) for a path `to` below `from`
relative(from, to) == SubSeq(to, Len(from) + 1, Len(to))

\* the globs of the front matter: src/*.<ext> and **/*.<ext>
Pattern(glob) ==
  CASE glob = "src/*.ts" -> [globstar |-> FALSE, dirs |-> <<"src">>, ext |-> "ts"]
    [] glob = "**/*.js" -> [globstar |-> TRUE, dirs |-> <<>>, ext |-> "js"]

\* micromatch.isMatch(str, pattern, {dot}) for these patterns: the pattern is
\* matched against the whole of str; * and ** match a segment that starts with
\* a dot only when dot is set
micromatch(str, pattern, dot) ==
  LET file == str[Len(str)]
      dirs == SubSeq(str, 1, Len(str) - 1)
  IN /\ Len(str) >= 1
     /\ file.ext = pattern.ext
     /\ dot \/ ~file.dot
     /\ IF pattern.globstar
        THEN \A k \in 1..Len(dirs) : dot \/ ~dirs[k].dot
        ELSE [k \in 1..Len(dirs) |-> dirs[k].name] = pattern.dirs

\* the globs that the front matter of the documents holds
Globs == {"src/*.ts", "**/*.js"}

\* micromatch.isMatch(path.relative(PROJECT_ROOT, file), glob, {dot}) for every
\* file, glob and setting of dot, computed once
matched ==
  [file \in Files |->
     [glob \in Globs |->
        [dot \in BOOLEAN |->
           micromatch(relative(PROJECT_ROOT, absolutePath(file)), Pattern(glob), dot)]]]

\* the option {dot: true} is not passed
isMatchNoDot(file, globs) == \E i \in 1..Len(globs) : matched[file][globs[i]][FALSE]

\* micromatch.isMatch(path.relative(PROJECT_ROOT, file), globs, {dot: true})
isMatch(file, globs) == \E i \in 1..Len(globs) : matched[file][globs[i]][TRUE]

Infinity == 99
typePriority(type) ==
  CASE type = "always" -> 0
    [] type = "auto" -> 1
    [] type = "agent" -> 2
    [] type = "manual" -> 3
    [] type = "related" -> 4

\* doc.filePath as the string a caller can put into a list of strings
pathString(p) == <<"/docs/1.md", "/docs/2.md", "/docs/3.md">>[p]

\* the agent condition looks for the path of the document in the list
ClassifyAgentByPath(doc, attachedFiles, relevantDocsByDescription) ==
  LET always == IF doc.meta.alwaysApply
                THEN [type |-> "always", priority |-> typePriority("always")]
                ELSE [type |-> "null", priority |-> Infinity]
      auto == IF /\ always.priority > typePriority("auto")
                 /\ Len(doc.meta.globs) > 0
                 /\ \E i \in 1..Len(attachedFiles) : isMatch(attachedFiles[i], doc.meta.globs)
              THEN [type |-> "auto", priority |-> typePriority("auto")]
              ELSE always
      agent == IF /\ auto.priority > typePriority("agent")
                  /\ pathString(doc.filePath) \in Range(relevantDocsByDescription)
               THEN [type |-> "agent", priority |-> typePriority("agent")]
               ELSE auto
      manual == IF /\ agent.priority > typePriority("manual")
                   /\ doc.filePath \in Range(attachedFiles)
                THEN [agent EXCEPT !.type = "manual"]
                ELSE agent
  IN manual.type

\* the four conditions tested in turn without the priority guards: the last
\* one that holds gives the type
ClassifyLast(doc, attachedFiles, relevantDocsByDescription) ==
  IF doc.filePath \in Range(attachedFiles) THEN "manual"
  ELSE IF doc.meta.description # ""
          /\ doc.meta.description \in Range(relevantDocsByDescription) THEN "agent"
  ELSE IF Len(doc.meta.globs) > 0
          /\ \E i \in 1..Len(attachedFiles) : isMatch(attachedFiles[i], doc.meta.globs)
  THEN "auto"
  ELSE IF doc.meta.alwaysApply THEN "always"
  ELSE "null"

\* the body of the classification loop up to `if (currentType)`:
\* the type given to a document, "null" when it gets none
Classify(doc, attachedFiles, relevantDocsByDescription) ==
  LET always == IF doc.meta.alwaysApply
                THEN [type |-> "always", priority |-> typePriority("always")]
                ELSE [type |-> "null", priority |-> Infinity]
      auto == IF /\ always.priority > typePriority("auto")
                 /\ Len(doc.meta.globs) > 0
                 /\ \E i \in 1..Len(attachedFiles) : isMatch(attachedFiles[i], doc.meta.globs)
              THEN [type |-> "auto", priority |-> typePriority("auto")]
              ELSE always
      agent == IF /\ auto.priority > typePriority("agent")
                  /\ doc.meta.description # ""
                  /\ doc.meta.description \in Range(relevantDocsByDescription)
               THEN [type |-> "agent", priority |-> typePriority("agent")]
               ELSE auto
      manual == IF /\ agent.priority > typePriority("manual")
                   /\ doc.filePath \in Range(attachedFiles)
                THEN [agent EXCEPT !.type = "manual"]
                ELSE agent
  IN manual.type

\* contextItemsMap: a Map keyed by doc.filePath, entries in insertion order.
\* An item holds the path of its doc; the doc itself is the index entry.
ItemHas(items, p) == \E i \in 1..Len(items) : items[i].filePath = p
ItemGet(items, p) == items[CHOOSE i \in 1..Len(items) : items[i].filePath = p]
ItemSet(items, item) ==
  IF ItemHas(items, item.filePath)
  THEN [i \in 1..Len(items) |-> IF items[i].filePath = item.filePath THEN item ELSE items[i]]
  ELSE Append(items, item)

RECURSIVE SeedFromErrors(_, _, _, _, _)
\* the documents that are errors are classified like the others
SeedFromErrors(m, i, attachedFiles, relevantDocsByDescription, st) ==
  IF i > Len(m) THEN st
  ELSE
    LET doc == m[i]
        currentType == Classify(doc, attachedFiles, relevantDocsByDescription)
        seeded ==
          IF currentType = "null" THEN st
          ELSE [items |-> ItemSet(st.items, [filePath |-> doc.filePath, type |-> currentType,
                                             linkedViaAnchor |-> 0, linkedFromPath |-> 0]),
                initialPaths |->
                  IF doc.filePath \in Range(st.initialPaths) THEN st.initialPaths
                  ELSE Append(st.initialPaths, doc.filePath)]
    IN SeedFromErrors(m, i + 1, attachedFiles, relevantDocsByDescription, seeded)

RECURSIVE SeedFrom(_, _, _, _, _)
\* the classification loop over allDocsMap.values(), from entry i on.
\* st = [items, initialPaths]
SeedFrom(m, i, attachedFiles, relevantDocsByDescription, st) ==
  IF i > Len(m) THEN st
  ELSE
    LET doc == m[i]
        currentType == Classify(doc, attachedFiles, relevantDocsByDescription)
        seeded ==
          IF doc.isError \/ currentType = "null" THEN st
          ELSE [items |->
                  IF \/ ~ItemHas(st.items, doc.filePath)
                     \/ typePriority(currentType)
                          < typePriority(ItemGet(st.items, doc.filePath).type)
                  THEN ItemSet(st.items, [filePath |-> doc.filePath, type |-> currentType,
                                          linkedViaAnchor |-> 0, linkedFromPath |-> 0])
                  ELSE st.items,
                initialPaths |->
                  IF doc.filePath \in Range(st.initialPaths) THEN st.initialPaths
                  ELSE Append(st.initialPaths, doc.filePath)]
    IN SeedFrom(m, i + 1, attachedFiles, relevantDocsByDescription, seeded)

\* contextItemsMap as an array: an item is pushed for every qualifying link
FollowLinkPush(m, currentPath, link, st) ==
  IF link.isInline THEN st
  ELSE IF ~MapHas(m, link.filePath) THEN st
  ELSE IF MapGet(m, link.filePath).isError THEN st
  ELSE [st EXCEPT !.items = Append(@, [filePath |-> link.filePath, type |-> "related",
                                       linkedViaAnchor |-> link.anchorText,
                                       linkedFromPath |-> currentPath]),
                  !.visited = @ \cup {link.filePath},
                  !.queue = IF link.filePath \in st.visited THEN @
                            ELSE Append(@, link.filePath)]

\* the check of linkedDoc.isError left out
FollowLinkToError(m, currentPath, link, st) ==
  IF link.isInline THEN st
  ELSE IF ~MapHas(m, link.filePath) THEN st
  ELSE IF ItemHas(st.items, link.filePath) THEN st
  ELSE [st EXCEPT !.items = ItemSet(@, [filePath |-> link.filePath, type |-> "related",
                                        linkedViaAnchor |-> link.anchorText,
                                        linkedFromPath |-> currentPath]),
                  !.visited = @ \cup {link.filePath},
                  !.queue = IF link.filePath \in st.visited THEN @
                            ELSE Append(@, link.filePath)]

\* embedded links are followed like the others
FollowLinkEmbedded(m, currentPath, link, st) ==
  IF ~MapHas(m, link.filePath) THEN st
  ELSE IF MapGet(m, link.filePath).isError THEN st
  ELSE IF ItemHas(st.items, link.filePath) THEN st
  ELSE [st EXCEPT !.items = ItemSet(@, [filePath |-> link.filePath, type |-> "related",
                                        linkedViaAnchor |-> link.anchorText,
                                        linkedFromPath |-> currentPath]),
                  !.visited = @ \cup {link.filePath},
                  !.queue = IF link.filePath \in st.visited THEN @
                            ELSE Append(@, link.filePath)]

\* a link to a path that has an item replaces the item
FollowLinkOverwrite(m, currentPath, link, st) ==
  IF link.isInline THEN st
  ELSE IF ~MapHas(m, link.filePath) THEN st
  ELSE IF MapGet(m, link.filePath).isError THEN st
  ELSE [st EXCEPT !.items = ItemSet(@, [filePath |-> link.filePath, type |-> "related",
                                        linkedViaAnchor |-> link.anchorText,
                                        linkedFromPath |-> currentPath]),
                  !.visited = @ \cup {link.filePath},
                  !.queue = IF link.filePath \in st.visited THEN @
                            ELSE Append(@, link.filePath)]

\* the related item is stored without the link that introduced it
FollowLinkUnrecorded(m, currentPath, link, st) ==
  IF link.isInline THEN st
  ELSE IF ~MapHas(m, link.filePath) THEN st
  ELSE IF MapGet(m, link.filePath).isError THEN st
  ELSE IF ItemHas(st.items, link.filePath) THEN st
  ELSE LET added == ItemSet(st.items,
                            [filePath |-> link.filePath, type |-> "related",
                             linkedViaAnchor |-> 0, linkedFromPath |-> 0])
       IN IF link.filePath \notin st.visited
          THEN [st EXCEPT !.items = added,
                          !.visited = @ \cup {link.filePath},
                          !.queue = Append(@, link.filePath)]
          ELSE [st EXCEPT !.items = added]

\* the target of every followed link is queued, whether it has an item or was
\* queued before
FollowLinkRequeue(m, currentPath, link, st) ==
  IF link.isInline THEN st
  ELSE IF ~MapHas(m, link.filePath) THEN st
  ELSE IF MapGet(m, link.filePath).isError THEN st
  ELSE [st EXCEPT !.items = IF ItemHas(@, link.filePath) THEN @
                             ELSE ItemSet(@, [filePath |-> link.filePath, type |-> "related",
                                              linkedViaAnchor |-> link.anchorText,
                                              linkedFromPath |-> currentPath]),
                  !.visited = @ \cup {link.filePath},
                  !.queue = Append(@, link.filePath)]

\* the body of the for loop over currentItem.doc.linksTo, for one link.
\* st = [items, queue, visited, dequeued]
FollowLink(m, currentPath, link, st) ==
  IF link.isInline THEN st
  ELSE IF ~MapHas(m, link.filePath) THEN st
  ELSE IF MapGet(m, link.filePath).isError THEN st
  ELSE IF ItemHas(st.items, link.filePath) THEN st
  ELSE LET added == ItemSet(st.items,
                            [filePath |-> link.filePath, type |-> "related",
                             linkedViaAnchor |-> link.anchorText,
                             linkedFromPath |-> currentPath])
       IN IF link.filePath \notin st.visited
          THEN [st EXCEPT !.items = added,
                          !.visited = @ \cup {link.filePath},
                          !.queue = Append(@, link.filePath)]
          ELSE [st EXCEPT !.items = added]

RECURSIVE FollowLinks(_, _, _, _)
\* the for loop over currentItem.doc.linksTo, from link k on
FollowLinks(m, currentPath, k, st) ==
  LET links == MapGet(m, currentPath).linksTo IN
  IF k > Len(links) THEN st
  ELSE FollowLinks(m, currentPath, k + 1, FollowLink(m, currentPath, links[k], st))

\* related items are not expanded: only the links of the seeds are followed
ExpandSeeds(m, st) ==
  LET currentPath == Head(st.queue)
      shifted == [st EXCEPT !.queue = Tail(@), !.dequeued = Append(@, currentPath)]
  IN IF ~ItemHas(st.items, currentPath) THEN shifted
     ELSE IF MapGet(m, currentPath).isError THEN shifted
     ELSE IF ItemGet(st.items, currentPath).type = "related" THEN shifted
     ELSE FollowLinks(m, currentPath, 1, shifted)

\* one turn of `while (queue.length > 0)`
Expand(m, st) ==
  LET currentPath == Head(st.queue)
      shifted == [st EXCEPT !.queue = Tail(@), !.dequeued = Append(@, currentPath)]
  IN IF ~ItemHas(st.items, currentPath) THEN shifted
     ELSE IF MapGet(m, currentPath).isError THEN shifted
     ELSE FollowLinks(m, currentPath, 1, shifted)

RECURSIVE ExpandAll(_, _, _)
\* the while loop.  The model stops it after `turns` turns; a loop that has not
\* emptied its queue by then is reported with a non-empty queue.
ExpandAll(m, st, turns) ==
  IF st.queue = <<>> \/ turns = 0 THEN st
  ELSE ExpandAll(m, Expand(m, st), turns - 1)

\* ------------------------------------------------------------ sortItems
\* the comparator without the tie-break on the paths
ByType(a, b) == typePriority(a.type) < typePriority(b.type)

\* the paths compared first, the type priority on equal paths only
ByPathThenType(a, b) ==
  \/ a.filePath < b.filePath
  \/ a.filePath = b.filePath /\ typePriority(a.type) < typePriority(b.type)

\* the comparator of nonRelatedItems.sort: type priority, then localeCompare of the paths
ByTypeThenPath(a, b) ==
  \/ typePriority(a.type) < typePriority(b.type)
  \/ typePriority(a.type) = typePriority(b.type) /\ a.filePath < b.filePath

\* (a, b) => a.doc.filePath.localeCompare(b.doc.filePath)
ByPath(a, b) == a.filePath < b.filePath

\* potentialLinker.doc.linksTo.some((link) => link.filePath === relatedPath)
LinksTo(m, linker, relatedPath) ==
  \E k \in 1..Len(MapGet(m, linker.filePath).linksTo) :
    MapGet(m, linker.filePath).linksTo[k].filePath = relatedPath

\* relatedLinkers.get(relatedPath): the paths of the non-related items that link to it
relatedLinkers(m, items, relatedPath) ==
  LET linkers == SelectSeq(items, LAMBDA it : it.type # "related" /\ LinksTo(m, it, relatedPath))
  IN [i \in 1..Len(linkers) |-> linkers[i].filePath]

\* the first item of the sorted non-related list that is among the linkers; 0: none
firstLinkerPath(nonRelatedItems, linkerPaths) ==
  LET found == SelectSeq(nonRelatedItems, LAMBDA nr : nr.filePath \in Range(linkerPaths))
  IN IF found = <<>> THEN 0 ELSE found[1].filePath

\* items.map((i) => i.doc.filePath)
PathsIn(items) == [i \in 1..Len(items) |-> items[i].filePath]

RECURSIVE PushUnplaced(_, _)
\* push the items of a group that are not in placedRelatedPaths.  st = [final, placed]
PushUnplaced(st, group) ==
  IF group = <<>> THEN st
  ELSE PushUnplaced(IF Head(group).filePath \in st.placed THEN st
                    ELSE [final |-> Append(st.final, Head(group)),
                          placed |-> st.placed \cup {Head(group).filePath}],
                    Tail(group))

RECURSIVE AssembleFrom(_, _, _, _, _)
\* step 4 of sortItems: the loop over the sorted non-related items, from item i on.
\* itemsToInsertByLinker[p] is itemsToInsertByLinker.get(p) ?? []
AssembleFrom(nonRelatedItems, i, itemsToInsertByLinker, hoistContext, st) ==
  IF i > Len(nonRelatedItems) THEN st
  ELSE
    LET nonRelatedItem == nonRelatedItems[i]
        relatedGroupToInsert == itemsToInsertByLinker[nonRelatedItem.filePath]
        before == IF hoistContext THEN PushUnplaced(st, relatedGroupToInsert) ELSE st
        self == [before EXCEPT !.final = Append(@, nonRelatedItem)]
        after == IF ~hoistContext THEN PushUnplaced(self, relatedGroupToInsert) ELSE self
    IN AssembleFrom(nonRelatedItems, i + 1, itemsToInsertByLinker, hoistContext, after)

sortItems(m, items, hoistContext) ==
  LET relatedItems == SelectSeq(items, LAMBDA it : it.type = "related")
      nonRelatedItems == SortSeq(SelectSeq(items, LAMBDA it : it.type # "related"),
                                 ByTypeThenPath)
      linkersOf(r) == relatedLinkers(m, items, r.filePath)
      first(r) == firstLinkerPath(nonRelatedItems, linkersOf(r))
      \* related items without a non-related linker, and those whose linkers are
      \* all missing from the sorted non-related list
      orphanRelatedItems ==
        SortSeq(SelectSeq(relatedItems, LAMBDA r : linkersOf(r) = <<>> \/ first(r) = 0),
                ByPath)
      itemsToInsertByLinker ==
        [linkerPath \in Range(PathsIn(nonRelatedItems)) |->
           SortSeq(SelectSeq(relatedItems,
                             LAMBDA r : linkersOf(r) # <<>> /\ first(r) = linkerPath),
                   ByPath)]
      placed == AssembleFrom(nonRelatedItems, 1, itemsToInsertByLinker, hoistContext,
                             [final |-> <<>>, placed |-> {}])
  IN PushUnplaced(placed, orphanRelatedItems).final

\* buildContextItems(attachedFiles, relevantDocsByDescription) on the index m:
\* the returned list, with the items before sorting and the state in which the
\* expansion loop was left
buildContextItems(m, attachedFiles, relevantDocsByDescription, hoistContext) ==
  IF Len(m) = 0
  THEN [finalItems |-> <<>>, contextItems |-> <<>>, queue |-> <<>>, dequeued |-> <<>>]
  ELSE
    LET seeded == SeedFrom(m, 1, attachedFiles, relevantDocsByDescription,
                           [items |-> <<>>, initialPaths |-> <<>>])
        expanded == ExpandAll(m, [items |-> seeded.items, queue |-> seeded.initialPaths,
                                  visited |-> Range(seeded.initialPaths),
                                  dequeued |-> <<>>],
                              Len(m))
    IN [finalItems |-> sortItems(m, expanded.items, hoistContext),
        contextItems |-> expanded.items,
        queue |-> expanded.queue,
        dequeued |-> expanded.dequeued]

\* attachedFiles is read through includes, some and new Set only, so a list
\* stands for its rearrangements
AttachedLists ==
  {s \in SeqsUpTo(Files, MaxAttached) : \A i \in 1..Len(s) - 1 : s[i] <= s[i + 1]}
\* relevantDocsByDescription is a list of strings: no entry, the description of
\* a document, or the path of one
RelevantLists == {<<>>, <<"d">>, <<pathString(2)>>}

\* a get_relevant_docs request: buildContextItems has no await, it runs in one step
BuildContextItems ==
  /\ ~context.called
  /\ \E attachedFiles \in AttachedLists, relevantDocsByDescription \in RelevantLists :
       context' = [called |-> TRUE,
                   attachedFiles |-> attachedFiles,
                   relevantDocsByDescription |-> relevantDocsByDescription,
                   index |-> docMap,
                   returned |-> buildContextItems(docMap, attachedFiles,
                                                  relevantDocsByDescription, hoist)]
  /\ UNCHANGED <<fs, globFiles, hoist, docMap, pendingDocPromises, loads, cycle, build,
                 requests>>

\* the get_relevant_docs handler returns its answer to the client
ReturnContext ==
  /\ context.called
  /\ context' = [called |-> FALSE]
  /\ UNCHANGED <<fs, globFiles, hoist, docMap, pendingDocPromises, loads, cycle, build,
                 requests>>

\* ------------------------------------------------------------ the files on disk
\* the links extractLinks returns for the text of file p: at most n of them, in
\* text order, to the given targets
LinkLists(n, targets, inlines) ==
  {[i \in 1..Len(s) |-> [filePath |-> s[i][1], isInline |-> s[i][2],
                          inlineLinesRange |-> Undefined, anchorText |-> i]] :
     s \in SeqsUpTo(targets \X inlines, n)}

\* a text that holds the given links and no other: md-embed=true for an
\* embedded link, md-link=true for a link that is not embedded
TextOf(links) ==
  [k \in 1..Len(links) |->
     [anchorText |-> links[k].anchorText, filePath |-> links[k].filePath,
      fault |-> "none",
      searchParams |-> IF links[k].isInline THEN EMBED_PARAM :> <<"t", "r", "u", "e">>
                       ELSE LINK_PARAM :> <<"t", "r", "u", "e">>]]

\* a regular file: readable markdown whose front matter parses; links names
\* the links that its text is written to hold
RegularFiles(n, targets, kinds) ==
  {[readOk |-> TRUE, isMarkdown |-> TRUE, parseOk |-> TRUE, meta |-> m, links |-> ls,
    text |-> TextOf(ls)] :
     m \in kinds.metas, ls \in LinkLists(n, targets, kinds.inlines)}

\* the other files: unreadable ones, markdown whose front matter does not parse,
\* and readable files that are not markdown
Unreadable(md) ==
  [readOk |-> FALSE, isMarkdown |-> md, parseOk |-> TRUE, meta |-> BlankMeta, links |-> <<>>,
   text |-> <<>>]

Unparsed(md) ==
  [readOk |-> TRUE, isMarkdown |-> md, parseOk |-> FALSE, meta |-> BlankMeta, links |-> <<>>,
   text |-> <<>>]

OddFiles == {Unreadable(md) : md \in BOOLEAN} \cup {Unparsed(md) : md \in BOOLEAN}

\* readable files that are not markdown, or whose front matter does not parse,
\* with a link in their text
LinkedOddFiles ==
  {[Unparsed(md) EXCEPT !.links = ls, !.text = TextOf(ls)] :
     md \in BOOLEAN, ls \in LinkLists(1, Paths, {FALSE}) \ {<<>>}}

RECURSIVE FileSystems(_, _, _, _, _)
\* the file systems over paths 1..k that hold at most n links in all, at most
\* o odd files and at most f files with front matter
FileSystems(k, n, o, f, kinds) ==
  IF k = 0 THEN {<<>>}
  ELSE UNION {{Append(g, rec) :
                 g \in FileSystems(k - 1, n - Len(rec.links), o,
                                   IF rec.meta = BlankMeta THEN f ELSE f - 1, kinds)} :
                rec \in {r \in RegularFiles(n, IF kinds.selfLinks THEN Paths
                                                ELSE Paths \ {k}, kinds) :
                           r.meta = BlankMeta \/ f > 0}}
       \cup
       (IF o = 0 THEN {}
        ELSE {Append(g, rec) : g \in FileSystems(k - 1, n, o - 1, f, kinds),
                               rec \in kinds.odd})

NoContext == [called |-> FALSE]

Init ==
  /\ fs \in FileSystems(Cardinality(Paths), MaxLinks, MaxOddFiles, 0,
                      [metas |-> {BlankMeta}, inlines |-> {FALSE}, selfLinks |-> TRUE,
                       odd |-> OddFiles])
  /\ globFiles \in {1..k : k \in 0..Cardinality(Paths)}
  /\ hoist = TRUE
  /\ docMap = <<>>
  /\ pendingDocPromises = [p \in Paths |-> 0]
  /\ loads = <<>>
  /\ cycle = 0
  /\ build = IdleBuild
  /\ requests = 0
  /\ context = NoContext

Next ==
  \/ BuildIndex
  \/ LoadInitialDocs
  \/ SetInitialDocs
  \/ ProcessBatch
  \/ ResumeDiscovery
  \/ FinishBuild
  \/ LoadSettles
  \/ GetDocRequest

Spec == Init /\ [][Next]_vars

\* ------------------------------------------------------------ context assembly alone
\* what the front matter of a document can hold
Metas ==
  {BlankMeta,
   [description |-> "d", globs |-> <<"src/*.ts", "**/*.js">>, alwaysApply |-> FALSE],
   [description |-> "d", globs |-> <<"src/*.ts", "**/*.js">>, alwaysApply |-> TRUE]}

RECURSIVE Orders(_)
\* the sequences that hold each element of S once
Orders(S) ==
  IF S = {} THEN {<<>>}
  ELSE UNION {{<<x>> \o o : o \in Orders(S \ {x})} : x \in S}

Reverse(s) == [i \in 1..Len(s) |-> s[Len(s) + 1 - i]]

\* the orders in which the loads of a build completed: the index is empty, or
\* holds every file, in ascending or in descending order of the paths
InsertionOrders == {<<>>, SetToSeq(Paths), Reverse(SetToSeq(Paths))}

\* the index after the loads of the files completed in the given order
IndexOf(order) == [i \in 1..Len(order) |-> FetchedDoc(order[i], i)]

\* the assembler reads of a failed document only that it failed, so one kind
\* of failing file stands for all of them
ContextFileSystems ==
  FileSystems(Cardinality(Paths), MaxLinks, MaxOddFiles, MaxFrontMatter,
              [metas |-> Metas, inlines |-> BOOLEAN, selfLinks |-> FALSE,
               odd |-> {Unreadable(TRUE)}])

InitContext ==
  /\ fs \in ContextFileSystems
  /\ globFiles = Paths
  /\ hoist \in BOOLEAN
  /\ \E order \in InsertionOrders : docMap = IndexOf(order)
  /\ pendingDocPromises = [p \in Paths |-> 0]
  /\ loads = <<>>
  /\ cycle = 1
  /\ build = [IdleBuild EXCEPT !.pc = "done", !.processedPaths = MapKeys(docMap)]
  /\ requests = 0
  /\ context = NoContext

NextContext == BuildContextItems \/ ReturnContext

SpecContext == InitContext /\ [][NextContext]_vars

\* the assembler on the indexes of documents without front matter, which are
\* seeds only as attached files, with one link more among them
InitOrphans ==
  /\ fs \in FileSystems(Cardinality(Paths), MaxLinks + 1, 0, 0,
                      [metas |-> {BlankMeta}, inlines |-> BOOLEAN, selfLinks |-> FALSE,
                       odd |-> {}])
  /\ globFiles = Paths
  /\ hoist \in BOOLEAN
  /\ \E order \in InsertionOrders : docMap = IndexOf(order)
  /\ pendingDocPromises = [p \in Paths |-> 0]
  /\ loads = <<>>
  /\ cycle = 1
  /\ build = [IdleBuild EXCEPT !.pc = "done", !.processedPaths = MapKeys(docMap)]
  /\ requests = 0
  /\ context = NoContext

SpecOrphans == InitOrphans /\ [][NextContext]_vars

\* buildIndex() on its own, with no getDoc() call from outside.  The event loop
\* runs every continuation that is ready, and every file read settles.
NextBuild ==
  \/ BuildIndex
  \/ LoadInitialDocs
  \/ SetInitialDocs
  \/ ProcessBatch
  \/ ResumeDiscovery
  \/ FinishBuild
  \/ LoadSettles

FairSpec ==
  /\ Init
  /\ [][NextBuild]_vars
  /\ WF_vars(LoadInitialDocs)
  /\ WF_vars(SetInitialDocs)
  /\ WF_vars(ProcessBatch)
  /\ WF_vars(ResumeDiscovery)
  /\ WF_vars(FinishBuild)
  /\ WF_vars(LoadSettles)

\* buildIndex() on its own, on files whose links may be embedded, and with
\* links in the text of files that are not markdown or do not parse
InitBuild ==
  /\ fs \in FileSystems(Cardinality(Paths), MaxLinks, MaxOddFiles, 0,
                      [metas |-> {BlankMeta}, inlines |-> BOOLEAN, selfLinks |-> TRUE,
                       odd |-> OddFiles \cup LinkedOddFiles])
  /\ globFiles \in {1..k : k \in 0..Cardinality(Paths)}
  /\ hoist = TRUE
  /\ docMap = <<>>
  /\ pendingDocPromises = [p \in Paths |-> 0]
  /\ loads = <<>>
  /\ cycle = 0
  /\ build = IdleBuild
  /\ requests = 0
  /\ context = NoContext

SpecBuild == InitBuild /\ [][NextBuild]_vars

\* ------------------------------------------------------------ link extraction alone
\* what a link can carry as md-link and as md-embed
LinkValues ==
  {<<"t", "r", "u", "e">>, <<"1">>, <<"T", "R", "U", "E">>, <<"f", "a", "l", "s", "e">>}
EmbedValues ==
  {<<"t", "r", "u", "e">>, <<"f", "a", "l", "s", "e">>, <<"F", "A", "L", "S", "E">>,
   <<"1", "-", "2">>, <<"1", "0", "-", "9">>, <<"3", "-", "E", "N", "D">>,
   <<"-", "1", "2">>, <<"a", "-", "1">>, <<"1", "-", "2", "-", "3">>,
   <<"1", ".", "5", "-", "3">>, <<"2", "-", "1", "E", "1">>}

\* the queries of a link: each of the two parameters absent or with one of its values
Queries ==
  {<<>>}
  \cup {LINK_PARAM :> v : v \in LinkValues}
  \cup {EMBED_PARAM :> e : e \in EmbedValues}
  \cup {(LINK_PARAM :> v) @@ (EMBED_PARAM :> e) : v \in LinkValues, e \in EmbedValues}

\* the targets of a link: one that parses with each of the queries, and with a
\* query that marks a link one that is no URL and one whose path does not resolve
Targets ==
  ({"none"} \X Queries)
  \cup ({"url", "path"} \X {LINK_PARAM :> <<"t", "r", "u", "e">>})

\* the texts with at most n links to the given targets; the anchor text of a
\* link is its place in the text
RawTexts(n, targets) ==
  {[k \in 1..Len(s) |->
      [anchorText |-> k, filePath |-> s[k][1], fault |-> s[k][2][1],
       searchParams |-> s[k][2][2]]] :
     s \in SeqsUpTo(targets \X Targets, n)}

\* a markdown file with the given text
TextFile(text) ==
  [readOk |-> TRUE, isMarkdown |-> TRUE, parseOk |-> TRUE, meta |-> BlankMeta,
   links |-> extractLinksFrom(text), text |-> text]

\* the links of a text in the reverse order, to another target
Mirror(text, target) ==
  [k \in 1..Len(text) |->
     [text[Len(text) + 1 - k] EXCEPT !.anchorText = k, !.filePath = target]]

\* buildIndex() on its own: findFiles() gives the first file, whose text holds
\* links of every kind to the second, and the second file, whose text holds
\* the same links in the reverse order to the third
InitLinks ==
  /\ \E text \in RawTexts(MaxLinks, {2}) :
       fs = <<TextFile(text), TextFile(Mirror(text, 3)), TextFile(<<>>)>>
  /\ globFiles = {1, 2}
  /\ hoist = TRUE
  /\ docMap = <<>>
  /\ pendingDocPromises = [p \in Paths |-> 0]
  /\ loads = <<>>
  /\ cycle = 0
  /\ build = IdleBuild
  /\ requests = 0
  /\ context = NoContext

SpecLinks == InitLinks /\ [][NextBuild]_vars

\* ------------------------------------------------------------ a reindex with a request in flight
\* the files a build has to load: those findFiles() gives and those reached from
\* them through the links of the markdown files that load and parse
Failing(p) == ~fs[p].readOk \/ (fs[p].isMarkdown /\ ~fs[p].parseOk)

LinkTargets(p) == {fs[p].links[k].filePath : k \in 1..Len(fs[p].links)}

RECURSIVE ReachableFiles(_)
ReachableFiles(S) ==
  LET next == S \cup UNION {LinkTargets(p) : p \in {q \in S : fs[q].isMarkdown /\ ~Failing(q)}}
  IN IF next = S THEN S ELSE ReachableFiles(next)

\* the loads of a first build that has returned: one for every file that the
\* build reaches, completed in ascending order of the paths
BuiltLoads ==
  LET order == SetToSeq(ReachableFiles(globFiles))
  IN [i \in 1..Len(order) |->
        [path |-> order[i], cycle |-> 1, done |-> TRUE, doc |-> FetchedDoc(order[i], i)]]

\* the server has built its index once, and a getDoc from outside the build,
\* for a file that the index does not hold, is in flight; requests counts the
\* calls from outside that start a fetch from here on
InitReindex ==
  /\ fs \in FileSystems(Cardinality(Paths), MaxLinks, MaxOddFiles, 0,
                      [metas |-> {BlankMeta}, inlines |-> {FALSE}, selfLinks |-> TRUE,
                       odd |-> OddFiles])
  /\ globFiles \in {1..k : k \in 0..(Cardinality(Paths) - 1)}
  /\ hoist = TRUE
  /\ \E p \in Paths \ ReachableFiles(globFiles) :
       /\ loads = Append(BuiltLoads, [path |-> p, cycle |-> 1, done |-> FALSE, doc |-> NoDoc])
       /\ docMap = [i \in 1..Len(BuiltLoads) |-> BuiltLoads[i].doc]
       /\ pendingDocPromises = [q \in Paths |-> IF q = p THEN Len(BuiltLoads) + 1 ELSE 0]
  /\ cycle = 1
  /\ build = [IdleBuild EXCEPT !.pc = "done", !.processedPaths = ReachableFiles(globFiles)]
  /\ requests = 0
  /\ context = NoContext

SpecReindex == InitReindex /\ [][Next]_vars

\* ============================================================ properties
\* ------------------------------------------------------------ the index

C7_BuildTerminates ==
  /\ [](\A i, j \in 1..Len(build.batches) :
          i < j => build.batches[i] \cap build.batches[j] = {})
  /\ [][build'.pc # "findFiles" => build.processedPaths \subseteq build'.processedPaths]_vars
  /\ (build.pc = "findFiles") ~> (build.pc = "done")

\* a build has returned after it went round a link cycle of two files
C7_Witness ==
  /\ build.pc = "done"
  /\ Len(build.batches) >= 2
  /\ \E p, q \in build.processedPaths :
       p # q /\ q \in LinkTargets(p) /\ p \in LinkTargets(q)

\* C9: when build() has returned, every file it had to load is in the index:
\* the ones that cannot be read or parsed as error placeholders, all the others
\* as documents that are not errors.
C9_FailuresAbsorbed ==
  build.pc = "done" =>
    \A p \in ReachableFiles(globFiles) :
      /\ MapHas(docMap, p)
      /\ MapGet(docMap, p).isError <=> Failing(p)

\* a build has returned with a placeholder for a failing file and, next to
\* it, the document that links to the failing file and a document loaded after it
C9_Witness ==
  /\ build.pc = "done"
  /\ \E p, q, r \in ReachableFiles(globFiles) :
       /\ Failing(p) /\ ~Failing(q) /\ ~Failing(r)
       /\ q # r
       /\ fs[q].links # <<>>
       /\ fs[q].links[1].filePath = p
       /\ r \in LinkTargets(q)
       /\ r \notin globFiles
       /\ MapHas(docMap, p) /\ MapGet(docMap, p).isError
       /\ MapHas(docMap, r) /\ ~MapGet(docMap, r).isError

LoadsOf(p, c) == {l \in LoadIds : loads[l].path = p /\ loads[l].cycle = c}

\* C12: at no time of a build has a path been given more than one load, and
\* when the build has returned every file it had to load, initially found or
\* linked, has been read, parsed and scanned for links by exactly one load of
\* that build, and no other file has been read.
C12_EachPathLoadedOnce ==
  /\ \A p \in Paths : Cardinality(LoadsOf(p, cycle)) <= 1
  /\ build.pc = "done" =>
       \A p \in Paths :
         IF p \in ReachableFiles(globFiles)
         THEN \E l \in LoadIds :
                /\ LoadsOf(p, cycle) = {l}
                /\ loads[l].done
                /\ loads[l].doc = MapGet(docMap, p)
         ELSE LoadsOf(p, cycle) = {}

\* a second build has returned after two documents scanned in one round
\* linked to a file that findFiles() did not give
C12_Witness ==
  /\ build.pc = "done"
  /\ cycle = 2
  /\ \E p, q \in globFiles : \E r \in Paths \ globFiles :
       /\ p # q
       /\ ~Failing(p) /\ ~Failing(q)
       /\ r \in LinkTargets(p) /\ r \in LinkTargets(q)
       /\ Cardinality(LoadsOf(r, 1)) = 1
       /\ Cardinality(LoadsOf(r, 2)) = 1

\* C13: getDoc for a path that is in the index hands back the stored node at
\* once: it starts no load, so nothing is read, parsed or scanned for links,
\* and it leaves the index and the in-flight table as they are.  The nodes
\* that the calls of a build got this way are nodes that a finished load stored.
C13_CachedNodeReturned ==
  /\ \A p \in Paths :
       MapHas(docMap, p) =>
         getDoc(Tables, p) = [pending |-> pendingDocPromises, loads |-> loads,
                              handles |-> <<[load |-> 0, doc |-> MapGet(docMap, p)]>>]
  /\ \A i \in 1..Len(build.initial) :
       build.initial[i].load = 0 =>
         \E l \in LoadIds : loads[l].done /\ loads[l].doc = build.initial[i].doc

\* getDocs of a build was handed a node of the index for one path while it
\* started a load for another
C13_Witness ==
  /\ build.pc = "initialDocs"
  /\ \E i, j \in 1..Len(build.initial) :
       /\ build.initial[i].load = 0
       /\ MapHas(docMap, build.initial[i].doc.filePath)
       /\ build.initial[j].load # 0
       /\ ~loads[build.initial[j].load].done
       /\ pendingDocPromises[loads[build.initial[j].load].path] = build.initial[j].load

\* C14: when the read of the file fails, the load of getDoc still completes:
\* it gives an error placeholder for the path, marked as an error, markdown or
\* not as the file name says, with blank metadata and no links, and at that
\* moment the placeholder is the node the index holds for the path.
C14_ReadFailureGivesPlaceholder ==
  [][\A l \in LoadIds :
       ~loads[l].done /\ loads'[l].done /\ ~fs[loads[l].path].readOk =>
         LET p == loads[l].path
             doc == loads'[l].doc
         IN /\ doc.filePath = p
            /\ doc.isError
            /\ doc.isMarkdown = isMarkdown(p)
            /\ doc.linksTo = <<>>
            /\ doc.meta = BlankMeta
            /\ MapHas(docMap', p)
            /\ MapGet(docMap', p) = doc]_vars

\* a getDoc call from outside the build for an unreadable markdown file has
\* completed, and the index holds the placeholder
C14_Witness ==
  \E l \in LoadIds :
    LET p == loads[l].path
    IN /\ loads[l].done
       /\ ~fs[p].readOk
       /\ fs[p].isMarkdown
       /\ p \notin ReachableFiles(globFiles)
       /\ loads[l].doc.isError
       /\ MapHas(docMap, p)
       /\ MapGet(docMap, p) = loads[l].doc

\* C15: a node of the index, and the node any load produced, has links only
\* if it is markdown and not an error, and then it has the links of its text;
\* a file that is not markdown, or whose parse failed, has none, whatever
\* links its text holds.
C15_LinksOnlyOnParsedMarkdown ==
  /\ \A i \in 1..Len(docMap) :
       docMap[i].linksTo =
         IF docMap[i].isMarkdown /\ ~docMap[i].isError
         THEN fs[docMap[i].filePath].links ELSE <<>>
  /\ \A l \in LoadIds :
       loads[l].done =>
         loads[l].doc.linksTo =
           IF loads[l].doc.isMarkdown /\ ~loads[l].doc.isError
           THEN fs[loads[l].path].links ELSE <<>>

\* a build has returned with a node without links for a file that was read and
\* has a link in its text, next to a markdown node that has its links
C15_Witness ==
  /\ build.pc = "done"
  /\ \E i, j \in 1..Len(docMap) :
       /\ fs[docMap[i].filePath].readOk
       /\ fs[docMap[i].filePath].links # <<>>
       /\ docMap[i].linksTo = <<>>
       /\ docMap[j].isMarkdown /\ ~docMap[j].isError
       /\ docMap[j].linksTo # <<>>

HandlePath(st, h) == IF h.load = 0 THEN h.doc.filePath ELSE st.loads[h.load].path

\* the paths that the links of a node of the index name, one entry per link
LinkedPaths(doc) == [k \in 1..Len(doc.linksTo) |-> doc.linksTo[k].filePath]

\* C19: getDocs on the paths that the links of a node name, a path as often
\* as it is linked, hands back one node per distinct path and starts one load
\* for each distinct path that is neither in the index nor being loaded, and
\* no other load.  The loads a discovery callback waits for are loads of
\* different paths.
C19_GetDocsDeduplicates ==
  /\ \A i \in 1..Len(docMap) :
       LET ps == LinkedPaths(docMap[i])
           st == getDocs(Tables, ps)
           fresh == {p \in Range(ps) : ~MapHas(docMap, p) /\ pendingDocPromises[p] = 0}
       IN /\ Len(st.handles) = Cardinality(Range(ps))
          /\ \A p \in Range(ps) :
               Cardinality({k \in 1..Len(st.handles) : HandlePath(st, st.handles[k]) = p}) = 1
          /\ Len(st.loads) = Len(loads) + Cardinality(fresh)
          /\ \A p \in fresh :
               Cardinality({l \in (Len(loads) + 1)..Len(st.loads) : st.loads[l].path = p}) = 1
          /\ \A l \in LoadIds : st.loads[l] = loads[l]
  /\ \A cb \in build.waiting :
       Cardinality({loads[l].path : l \in cb.loads}) = Cardinality(cb.loads)

\* a discovery callback waits for the one load of a file that its document
\* links to twice
C19_Witness ==
  \E cb \in build.waiting : \E l \in LoadIds :
    /\ MapHas(docMap, cb.path)
    /\ Len(LinkedPaths(MapGet(docMap, cb.path))) = 2
    /\ Range(LinkedPaths(MapGet(docMap, cb.path))) = {loads[l].path}
    /\ loads[l].path # cb.path
    /\ cb.loads = {l}
    /\ ~loads[l].done
    /\ LoadsOf(loads[l].path, cycle) = {l}

\* ------------------------------------------------------------ the assembled context
\* the list a get_relevant_docs request got back
Returned == context.returned.finalItems

\* the four conditions of the classification, each on its own
IsAlways(doc) == doc.meta.alwaysApply
IsAuto(doc, attachedFiles) ==
  /\ Len(doc.meta.globs) > 0
  /\ \E f \in Range(attachedFiles) : \E i \in 1..Len(doc.meta.globs) : f \in Matches(doc.meta.globs[i])
IsAgent(doc, relevantDocsByDescription) ==
  doc.meta.description # "" /\ doc.meta.description \in Range(relevantDocsByDescription)
IsManual(doc, attachedFiles) == doc.filePath \in Range(attachedFiles)

\* the first of always, auto, agent, manual whose condition the document satisfies
Highest(doc, attachedFiles, relevantDocsByDescription) ==
  IF IsAlways(doc) THEN "always"
  ELSE IF IsAuto(doc, attachedFiles) THEN "auto"
  ELSE IF IsAgent(doc, relevantDocsByDescription) THEN "agent"
  ELSE IF IsManual(doc, attachedFiles) THEN "manual"
  ELSE "none"

\* C2: every document of the index that is not an error is returned with the
\* first of always, auto, agent, manual whose condition it satisfies; a document
\* that satisfies none of them is not seeded: it is absent from the result or
\* in it as a related item.
C2_HighestPriorityType ==
  context.called =>
    \A i \in 1..Len(context.index) :
      LET doc == context.index[i]
          type == Highest(doc, context.attachedFiles, context.relevantDocsByDescription)
      IN ~doc.isError =>
           IF type = "none"
           THEN \A k \in 1..Len(Returned) :
                  Returned[k].filePath = doc.filePath => Returned[k].type = "related"
           ELSE \E k \in 1..Len(Returned) :
                  Returned[k].filePath = doc.filePath /\ Returned[k].type = type

\* a document that satisfies all four conditions was returned as always, and a
\* document that satisfies none was left out
C2_Witness ==
  /\ context.called
  /\ \E i, j \in 1..Len(context.index) :
       LET doc == context.index[i]
           other == context.index[j]
       IN /\ IsAlways(doc)
          /\ IsAuto(doc, context.attachedFiles)
          /\ IsAgent(doc, context.relevantDocsByDescription)
          /\ IsManual(doc, context.attachedFiles)
          /\ \E k \in 1..Len(Returned) :
               Returned[k].filePath = doc.filePath /\ Returned[k].type = "always"
          /\ ~other.isError
          /\ Highest(other, context.attachedFiles, context.relevantDocsByDescription) = "none"
          /\ other.filePath \notin Range(PathsIn(Returned))

\* C3: no path occurs twice in the returned list.
C3_NoDuplicates ==
  context.called =>
    \A i, j \in 1..Len(Returned) : i < j => Returned[i].filePath # Returned[j].filePath

\* two attached files match the globs of one document, and a returned related
\* document is the target of two links of the returned documents
C3_Witness ==
  /\ context.called
  /\ \E i \in 1..Len(context.index) :
       LET doc == context.index[i]
       IN /\ ~doc.isError
          /\ \E a, b \in 1..Len(context.attachedFiles) :
               /\ a # b
               /\ context.attachedFiles[a] # context.attachedFiles[b]
               /\ isMatch(context.attachedFiles[a], doc.meta.globs)
               /\ isMatch(context.attachedFiles[b], doc.meta.globs)
          /\ \E k \in 1..Len(Returned) :
               Returned[k].filePath = doc.filePath /\ Returned[k].type = "auto"
  /\ \E k \in 1..Len(Returned) :
       /\ Returned[k].type = "related"
       /\ Cardinality({<<i, n>> \in (1..Len(context.index)) \X (1..MaxLinks + 1) :
                         /\ context.index[i].filePath \in Range(PathsIn(Returned))
                         /\ n <= Len(context.index[i].linksTo)
                         /\ ~context.index[i].linksTo[n].isInline
                         /\ context.index[i].linksTo[n].filePath = Returned[k].filePath}) >= 2

\* the index m with its entries in another insertion order
Permuted(m, order) == [i \in 1..Len(m) |-> m[order[i]]]

\* C4: on an index that holds the same documents in any other insertion order,
\* the same attached files, agent selection and hoist flag give the same
\* sequence of paths.
C4_OrderDeterminism ==
  context.called =>
    \A order \in Orders(1..Len(context.index)) :
      PathsIn(buildContextItems(Permuted(context.index, order), context.attachedFiles,
                                context.relevantDocsByDescription, hoist).finalItems)
        = PathsIn(Returned)

\* the index was not filled in the order of the paths, and the result holds
\* two seeds and a related document
C4_Witness ==
  /\ context.called
  /\ Len(context.index) >= 2
  /\ context.index[1].filePath > context.index[2].filePath
  /\ Cardinality({k \in 1..Len(Returned) : Returned[k].type # "related"}) >= 2
  /\ \E k \in 1..Len(Returned) : Returned[k].type = "related"

\* the documents of m that are not errors and satisfy one of the four conditions
SeedPaths(m, attachedFiles, relevantDocsByDescription) ==
  {m[i].filePath : i \in {j \in 1..Len(m) :
     /\ ~m[j].isError
     /\ Highest(m[j], attachedFiles, relevantDocsByDescription) # "none"}}

\* the documents of m, not errors, that a link of p that is not embedded points to
Successors(m, p) ==
  {t \in MapKeys(m) :
     /\ ~MapGet(m, t).isError
     /\ \E k \in 1..Len(MapGet(m, p).linksTo) :
          MapGet(m, p).linksTo[k].filePath = t /\ ~MapGet(m, p).linksTo[k].isInline}

RECURSIVE Closure(_, _)
\* S with everything reached from it
Closure(m, S) ==
  LET next == S \cup UNION {Successors(m, p) : p \in S}
  IN IF next = S THEN S ELSE Closure(m, next)

\* C5: the paths of the returned list are the seeds and the documents, not
\* errors, reached from a seed along links that are not embedded; the list is
\* as long as that set is large.
C5_SeedsAndReachable ==
  context.called =>
    LET reached == Closure(context.index,
                           SeedPaths(context.index, context.attachedFiles,
                                     context.relevantDocsByDescription))
    IN /\ Range(PathsIn(Returned)) = reached
       /\ Len(Returned) = Cardinality(reached)

\* a related document that only another related document links to was returned
C5_Witness ==
  /\ context.called
  /\ \E k, n \in 1..Len(Returned) :
       /\ Returned[k].type = "related"
       /\ Returned[n].type = "related"
       /\ Returned[k].linkedFromPath = Returned[n].filePath
       /\ \A i \in 1..Len(Returned) :
            Returned[i].type # "related" =>
              Returned[k].filePath \notin Successors(context.index, Returned[i].filePath)

\* C6: when two documents link to each other with links that are not embedded,
\* link to nothing else that way, and only the first of them is a seed, the
\* expansion loop ends with an empty queue and the result holds two items:
\* the first with its seed type and the second as related, linked from the first.
C6_CycleOfTwo ==
  context.called =>
    \A A, B \in MapKeys(context.index) :
      /\ A # B
      /\ Successors(context.index, A) = {B}
      /\ Successors(context.index, B) = {A}
      /\ SeedPaths(context.index, context.attachedFiles,
                   context.relevantDocsByDescription) = {A}
      => /\ context.returned.queue = <<>>
         /\ Len(Returned) = 2
         /\ \E k, n \in 1..2 :
              /\ Returned[k].filePath = A
              /\ Returned[k].type = Highest(MapGet(context.index, A), context.attachedFiles,
                                            context.relevantDocsByDescription)
              /\ Returned[k].linkedFromPath = 0
              /\ Returned[n].filePath = B
              /\ Returned[n].type = "related"
              /\ Returned[n].linkedFromPath = A

\* a request was answered on an index with such a cycle and a single seed
C6_Witness ==
  /\ context.called
  /\ \E A, B \in MapKeys(context.index) :
       /\ A # B
       /\ Successors(context.index, A) = {B}
       /\ Successors(context.index, B) = {A}
       /\ SeedPaths(context.index, context.attachedFiles,
                    context.relevantDocsByDescription) = {A}
       /\ Len(context.returned.dequeued) = 2

\* C10: a document that is an error is never in the returned list, while the
\* seeds and the documents reached from them that link to an error document
\* are in it.
C10_ErrorTargetSkipped ==
  context.called =>
    /\ \A i \in 1..Len(context.index) :
         context.index[i].isError => context.index[i].filePath \notin Range(PathsIn(Returned))
    /\ \A p \in Closure(context.index,
                        SeedPaths(context.index, context.attachedFiles,
                                  context.relevantDocsByDescription)) :
         (\E k \in 1..Len(MapGet(context.index, p).linksTo) :
            LET link == MapGet(context.index, p).linksTo[k]
            IN /\ ~link.isInline
               /\ MapHas(context.index, link.filePath)
               /\ MapGet(context.index, link.filePath).isError)
         => p \in Range(PathsIn(Returned))

\* a returned seed links to an error document and to a document that was
\* returned as related
C10_Witness ==
  /\ context.called
  /\ \E n \in 1..Len(Returned) :
       LET links == MapGet(context.index, Returned[n].filePath).linksTo
       IN /\ Returned[n].type # "related"
          /\ \E k \in 1..Len(links) :
               /\ ~links[k].isInline
               /\ MapGet(context.index, links[k].filePath).isError
               /\ links[k].filePath \notin Range(PathsIn(Returned))
          /\ \E k \in 1..Len(links) :
               /\ ~links[k].isInline
               /\ \E r \in 1..Len(Returned) :
                    Returned[r].filePath = links[k].filePath /\ Returned[r].type = "related"

\* the places in the returned list of the items that are not related and whose
\* document links to the document of r with a link that is not embedded
QualifyingLinkers(r) ==
  {k \in 1..Len(Returned) :
     /\ Returned[k].type # "related"
     /\ r.filePath \in Successors(context.index, Returned[k].filePath)}

\* the place of the primary linker of r: the qualifying linker that comes
\* first by classification priority, then path
PrimaryLinker(r) ==
  CHOOSE k \in QualifyingLinkers(r) :
    \A j \in QualifyingLinkers(r) : j = k \/ ByTypeThenPath(Returned[k], Returned[j])

\* C8: a related item that has a primary linker stands in the block of related
\* items of that linker, which ends right before the linker when hoist is true
\* and starts right after it when hoist is false.
C8_AdjacentToPrimaryLinker ==
  context.called =>
    \A n \in 1..Len(Returned) :
      Returned[n].type = "related" /\ QualifyingLinkers(Returned[n]) # {} =>
        LET k == PrimaryLinker(Returned[n])
            between == IF hoist THEN n..(k - 1) ELSE (k + 1)..n
        IN /\ IF hoist THEN n < k ELSE k < n
           /\ \A i \in between :
                /\ Returned[i].type = "related"
                /\ QualifyingLinkers(Returned[i]) # {}
                /\ PrimaryLinker(Returned[i]) = k

\* the documents of the index that are not errors and are neither always nor auto
AgentCandidates ==
  {i \in 1..Len(context.index) :
     /\ ~context.index[i].isError
     /\ ~IsAlways(context.index[i])
     /\ ~IsAuto(context.index[i], context.attachedFiles)}

ReturnedAs(p, type) ==
  \E k \in 1..Len(Returned) : Returned[k].filePath = p /\ Returned[k].type = type

C17_AutoByGlobMatch ==
  context.called =>
    \A i \in 1..Len(context.index) :
      LET doc == context.index[i]
      IN ~doc.isError /\ ~doc.meta.alwaysApply =>
           (ReturnedAs(doc.filePath, "auto")
              <=> /\ Len(doc.meta.globs) > 0
                  /\ \E f \in Range(context.attachedFiles) :
                       \E k \in 1..Len(doc.meta.globs) : f \in Matches(doc.meta.globs[k]))

\* a document was returned as auto for an attached file below a dot directory,
\* although the agent named it too, and a document without globs was not
C17_Witness ==
  /\ context.called
  /\ context.attachedFiles # <<>>
  /\ \A k \in 1..Len(context.attachedFiles) : absolutePath(context.attachedFiles[k])[2].dot
  /\ \E i, j \in 1..Len(context.index) :
       /\ ~context.index[i].isError /\ ~context.index[i].meta.alwaysApply
       /\ IsAgent(context.index[i], context.relevantDocsByDescription)
       /\ ReturnedAs(context.index[i].filePath, "auto")
       /\ ~context.index[j].isError
       /\ context.index[j].meta.globs = <<>>
       /\ ~ReturnedAs(context.index[j].filePath, "auto")

\* ------------------------------------------------------------ link extraction
\* a link of a text qualifies: its target is well formed, and md-link is true
\* or 1 as written, or md-embed is there and is not false in any writing
Qualifies(link) ==
  /\ link.fault = "none"
  /\ \/ /\ LINK_PARAM \in DOMAIN link.searchParams
        /\ link.searchParams[LINK_PARAM] \in {<<"t", "r", "u", "e">>, <<"1">>}
     \/ /\ EMBED_PARAM \in DOMAIN link.searchParams
        /\ link.searchParams[EMBED_PARAM]
             \notin {<<"f", "a", "l", "s", "e">>, <<"F", "A", "L", "S", "E">>}

\* C20: the links of a markdown node that is not an error are the links of
\* its text that qualify, in the order of the text, and no other link.
C20_QualifyingLinksExtracted ==
  \A i \in 1..Len(docMap) :
    docMap[i].isMarkdown /\ ~docMap[i].isError =>
      LET kept == SelectSeq(fs[docMap[i].filePath].text, Qualifies)
      IN /\ Len(docMap[i].linksTo) = Len(kept)
         /\ \A k \in 1..Len(kept) :
              /\ docMap[i].linksTo[k].anchorText = kept[k].anchorText
              /\ docMap[i].linksTo[k].filePath = kept[k].filePath

\* a build has returned with a node that has one link: its text holds a link
\* with md-link=TRUE and md-embed=FALSE, which was dropped, and a link with
\* nothing but an md-embed that is not false, which was extracted
C20_Witness ==
  /\ build.pc = "done"
  /\ \E i \in 1..Len(docMap) :
       LET text == fs[docMap[i].filePath].text
       IN /\ Len(text) = 2
          /\ text[1].searchParams = (LINK_PARAM :> <<"T", "R", "U", "E">>)
                                       @@ (EMBED_PARAM :> <<"F", "A", "L", "S", "E">>)
          /\ DOMAIN text[2].searchParams = {EMBED_PARAM}
          /\ Len(docMap[i].linksTo) = 1
          /\ docMap[i].linksTo[1].anchorText = 2
          /\ MapHas(docMap, docMap[i].linksTo[1].filePath)

\* the link of the text that a link of a node was extracted from: the anchor
\* text of a link is its place in the text
WrittenAs(doc, link) == fs[doc.filePath].text[link.anchorText]

\* the md-embed values that are no range A-B with A <= B: a word, a range that
\* runs backwards, a range whose start is no number, three numbers
NotARange ==
  {<<"t", "r", "u", "e">>, <<"1", "0", "-", "9">>, <<"a", "-", "1">>,
   <<"1", "-", "2", "-", "3">>}

\* C21: the range of an extracted link with a numeric end has from <= to, and
\* a link whose md-embed value runs backwards or is no range A-B is embedded
\* whole: it is marked as embedded and carries no range.
C21_RangeOrderedOrWhole ==
  \A i \in 1..Len(docMap) :
    \A k \in 1..Len(docMap[i].linksTo) :
      LET link == docMap[i].linksTo[k]
          written == WrittenAs(docMap[i], link).searchParams
      IN /\ ~link.inlineLinesRange.isUndefined /\ ~link.inlineLinesRange.toEnd
              => ~GreaterThan(link.inlineLinesRange.from, link.inlineLinesRange.to)
         /\ EMBED_PARAM \in DOMAIN written /\ written[EMBED_PARAM] \in NotARange
              => link.isInline /\ link.inlineLinesRange.isUndefined

\* a build has returned with a node of two links: the first was written with
\* md-embed=10-9 and is embedded whole, the second was written with
\* md-embed=3-END and carries the range from 3 to the end
C21_Witness ==
  /\ build.pc = "done"
  /\ \E i \in 1..Len(docMap) :
       LET doc == docMap[i]
       IN /\ Len(doc.linksTo) = 2
          /\ WrittenAs(doc, doc.linksTo[1]).searchParams = EMBED_PARAM :> <<"1", "0", "-", "9">>
          /\ doc.linksTo[1].isInline
          /\ doc.linksTo[1].inlineLinesRange.isUndefined
          /\ WrittenAs(doc, doc.linksTo[2]).searchParams
               = EMBED_PARAM :> <<"3", "-", "E", "N", "D">>
          /\ doc.linksTo[2].inlineLinesRange = DocLinkRange(Integer(3), TRUE, Integer(0))

\* the links of a node that were extracted from place a of its text
ExtractedAt(doc, a) ==
  {k \in 1..Len(doc.linksTo) : doc.linksTo[k].anchorText = a}

\* C22: a link whose target is no URL, or whose path does not resolve, is
\* left out, the file is still indexed as a node that is not an error, and
\* every other link of the same text that qualifies, before it or after it,
\* is extracted.
C22_FaultyLinkSkipped ==
  \A p \in Paths :
    LET text == fs[p].text
    IN MapHas(docMap, p) /\ (\E a \in 1..Len(text) : text[a].fault # "none") =>
         LET doc == MapGet(docMap, p)
         IN /\ ~doc.isError
            /\ \A a \in 1..Len(text) :
                 /\ text[a].fault # "none" => ExtractedAt(doc, a) = {}
                 /\ Qualifies(text[a]) =>
                      \E k \in ExtractedAt(doc, a) : doc.linksTo[k].filePath = text[a].filePath

\* a build has returned with two nodes of one link each: the text of the
\* first holds a link that is no URL and then a link that qualifies, the text
\* of the second holds the same two in the other order
C22_Witness ==
  /\ build.pc = "done"
  /\ Len(fs[1].text) = 2
  /\ fs[1].text[1].fault = "url" /\ Qualifies(fs[1].text[2])
  /\ Qualifies(fs[2].text[1]) /\ fs[2].text[2].fault = "url"
  /\ MapHas(docMap, 1) /\ MapHas(docMap, 2)
  /\ Len(MapGet(docMap, 1).linksTo) = 1 /\ MapGet(docMap, 1).linksTo[1].anchorText = 2
  /\ Len(MapGet(docMap, 2).linksTo) = 1 /\ MapGet(docMap, 2).linksTo[1].anchorText = 1

\* C23: an extracted link that was written without md-embed, or with
\* md-embed=false, is not marked as embedded and carries no range.
C23_NoEmbedParameterMeansNotEmbedded ==
  \A i \in 1..Len(docMap) :
    \A k \in 1..Len(docMap[i].linksTo) :
      LET link == docMap[i].linksTo[k]
          written == WrittenAs(docMap[i], link).searchParams
      IN (EMBED_PARAM \notin DOMAIN written
          \/ written[EMBED_PARAM] = <<"f", "a", "l", "s", "e">>)
           => ~link.isInline /\ link.inlineLinesRange.isUndefined

\* a build has returned with a node of two links that are not embedded: the
\* first was written with md-link=true and md-embed=false, the second with
\* md-link=1 and nothing else
C23_Witness ==
  /\ build.pc = "done"
  /\ \E i \in 1..Len(docMap) :
       LET doc == docMap[i]
       IN /\ Len(doc.linksTo) = 2
          /\ WrittenAs(doc, doc.linksTo[1]).searchParams
               = (LINK_PARAM :> <<"t", "r", "u", "e">>)
                   @@ (EMBED_PARAM :> <<"f", "a", "l", "s", "e">>)
          /\ WrittenAs(doc, doc.linksTo[2]).searchParams = LINK_PARAM :> <<"1">>
          /\ \A k \in 1..2 :
               ~doc.linksTo[k].isInline /\ doc.linksTo[k].inlineLinesRange.isUndefined

\* ------------------------------------------------------------ the primary linker
\* the linker that sortItems files the related item r under, 0 when it takes r
\* for an orphan
FirstLinkerOf(r) ==
  LET items == context.returned.contextItems
      nonRelatedItems == SortSeq(SelectSeq(items, LAMBDA it : it.type # "related"),
                                 ByTypeThenPath)
  IN firstLinkerPath(nonRelatedItems, relatedLinkers(context.index, items, r.filePath))

\* C24: the linker that a related item is filed under is the earliest item of
\* the sorted non-related items among those that link to it with a link that
\* is not embedded; a related item that non-related items reference through
\* embedded links only is filed under none.
C24_PrimaryLinkerByPlainLinks ==
  context.called =>
    \A n \in 1..Len(Returned) :
      Returned[n].type = "related" =>
        IF QualifyingLinkers(Returned[n]) = {}
        THEN FirstLinkerOf(Returned[n]) = 0
        ELSE FirstLinkerOf(Returned[n]) = Returned[PrimaryLinker(Returned[n])].filePath

\* ------------------------------------------------------------ embedded links
\* the documents of m, not errors, that a link of p of any kind points to
SuccessorsByAnyLink(m, p) ==
  {t \in MapKeys(m) :
     /\ ~MapGet(m, t).isError
     /\ \E k \in 1..Len(MapGet(m, p).linksTo) : MapGet(m, p).linksTo[k].filePath = t}

RECURSIVE ClosureByAnyLink(_, _)
\* S with everything reached from it along links of any kind
ClosureByAnyLink(m, S) ==
  LET next == S \cup UNION {SuccessorsByAnyLink(m, p) : p \in S}
  IN IF next = S THEN S ELSE ClosureByAnyLink(m, next)

\* the documents that the seeds reach, but only along paths that hold an
\* embedded link
ReachedThroughEmbedOnly ==
  LET seeds == SeedPaths(context.index, context.attachedFiles,
                         context.relevantDocsByDescription)
  IN ClosureByAnyLink(context.index, seeds) \ Closure(context.index, seeds)

\* C25: a document that the seeds reach only along paths that hold an
\* embedded link is not in the returned list, and the link recorded for a
\* related item is never an embedded one.
C25_EmbeddedLinksNotFollowed ==
  context.called =>
    /\ \A p \in ReachedThroughEmbedOnly : p \notin Range(PathsIn(Returned))
    /\ \A n \in 1..Len(Returned) :
         Returned[n].type = "related" =>
           \E k \in 1..Len(MapGet(context.index, Returned[n].linkedFromPath).linksTo) :
             LET link == MapGet(context.index, Returned[n].linkedFromPath).linksTo[k]
             IN /\ link.filePath = Returned[n].filePath
                /\ link.anchorText = Returned[n].linkedViaAnchor
                /\ ~link.isInline

\* a list was returned with a seed and the related document of a link of the
\* seed that is not embedded, but without the document that the related one
\* embeds
C25_Witness ==
  /\ context.called
  /\ ReachedThroughEmbedOnly # {}
  /\ \E n \in 1..Len(Returned) :
       /\ Returned[n].type = "related"
       /\ \E p \in ReachedThroughEmbedOnly :
            \E k \in 1..Len(MapGet(context.index, Returned[n].filePath).linksTo) :
              LET link == MapGet(context.index, Returned[n].filePath).linksTo[k]
              IN link.filePath = p /\ link.isInline

\* ------------------------------------------------------------ first discovery
\* the places, in the order in which the expansion took the items off its
\* queue, of the items that hold a link to p that is not embedded
DiscoverersOf(p) ==
  {j \in 1..Len(context.returned.dequeued) :
     p \in Successors(context.index, context.returned.dequeued[j])}

\* the anchor text of the first link of document q to p that is not embedded
FirstAnchor(q, p) ==
  LET links == MapGet(context.index, q).linksTo
      k == CHOOSE i \in 1..Len(links) :
             /\ links[i].filePath = p /\ ~links[i].isInline
             /\ \A h \in 1..(i - 1) : links[h].filePath # p \/ links[h].isInline
  IN links[k].anchorText

\* C26: a seed keeps its seed classification and has no linkedFromPath and no
\* linkedViaAnchor, whichever items link to it; a related item keeps the
\* linkedFromPath and the linkedViaAnchor of the first link that discovered
\* it, whichever links to it were met later.
C26_FirstDiscoveryWins ==
  context.called =>
    \A n \in 1..Len(Returned) :
      LET item == Returned[n]
      IN IF item.filePath \in SeedPaths(context.index, context.attachedFiles,
                                        context.relevantDocsByDescription)
         THEN /\ item.type = Highest(MapGet(context.index, item.filePath),
                                     context.attachedFiles,
                                     context.relevantDocsByDescription)
              /\ item.linkedFromPath = 0
              /\ item.linkedViaAnchor = 0
         ELSE /\ item.type = "related"
              /\ \E j \in DiscoverersOf(item.filePath) :
                   /\ \A h \in DiscoverersOf(item.filePath) : j <= h
                   /\ item.linkedFromPath = context.returned.dequeued[j]
                   /\ item.linkedViaAnchor = FirstAnchor(item.linkedFromPath, item.filePath)

\* a list was returned with a seed, the related item that the seed was the
\* first to link to, and a link of that related item back to the seed
C26_Witness ==
  /\ context.called
  /\ \E n, k \in 1..Len(Returned) :
       /\ Returned[n].type = "related"
       /\ Returned[k].type # "related"
       /\ Returned[n].linkedFromPath = Returned[k].filePath
       /\ Returned[k].filePath \in Successors(context.index, Returned[n].filePath)
       /\ Returned[k].linkedFromPath = 0

\* ------------------------------------------------------------ error placeholders
\* the paths of the documents of the index that are error placeholders
ErrorPaths ==
  {context.index[i].filePath : i \in {j \in 1..Len(context.index) : context.index[j].isError}}

\* C30: no item of the returned list is for an error placeholder, whether the
\* path of the placeholder is in attachedFiles, in relevantDocsByDescription,
\* or the target of a link of a returned item.
C30_ErrorPlaceholderNeverReturned ==
  context.called =>
    \A n \in 1..Len(Returned) :
      /\ Returned[n].filePath \notin ErrorPaths
      /\ ~MapGet(context.index, Returned[n].filePath).isError

\* a list with an item was returned on a request that names an error
\* placeholder both in attachedFiles and in relevantDocsByDescription
C30_Witness ==
  /\ context.called
  /\ Len(Returned) > 0
  /\ \E p \in ErrorPaths :
       /\ p \in Range(context.attachedFiles)
       /\ pathString(p) \in Range(context.relevantDocsByDescription)

\* ------------------------------------------------------------ requests during a reindex
\* the server has built its index once (run) and serves its tools: reindex_docs
\* awaits buildIndex(), and get_relevant_docs is answered whenever it arrives,
\* also between two steps of a build
InitServe ==
  /\ fs \in FileSystems(Cardinality(Paths), MaxLinks, 0, 0,
                      [metas |-> {BlankMeta}, inlines |-> {FALSE}, selfLinks |-> FALSE,
                       odd |-> {}])
  /\ globFiles \in {1..k : k \in 1..Cardinality(Paths)}
  /\ hoist = FALSE
  /\ loads = BuiltLoads
  /\ docMap = [i \in 1..Len(BuiltLoads) |-> BuiltLoads[i].doc]
  /\ pendingDocPromises = [q \in Paths |-> 0]
  /\ cycle = 1
  /\ build = [IdleBuild EXCEPT !.pc = "done", !.processedPaths = ReachableFiles(globFiles)]
  /\ requests = 0
  /\ context = NoContext

NextServe ==
  \/ NextBuild
  \/ BuildContextItems
  \/ ReturnContext

SpecServe == InitServe /\ [][NextServe]_vars

\* ------------------------------------------------------------ the life of a node
\* C27: within a build cycle a node enters the index at the step at which a
\* load of its path completes, as the node of that load, and once it is in
\* the index it is neither removed, replaced nor changed.
C27_NodeWrittenOnce ==
  [][cycle' = cycle =>
       /\ \A i \in 1..Len(docMap) :
            /\ MapHas(docMap', docMap[i].filePath)
            /\ MapGet(docMap', docMap[i].filePath) = docMap[i]
       /\ \A i \in 1..Len(docMap') :
            ~MapHas(docMap, docMap'[i].filePath) =>
              \E l \in LoadIds : /\ ~loads[l].done
                                 /\ loads'[l].done
                                 /\ loads'[l].doc = docMap'[i]]_vars

C29_NoHalfWrittenNode ==
  /\ [](/\ \A i \in 1..Len(docMap) :
             docMap[i].isMarkdown /\ ~docMap[i].isError =>
               docMap[i].linksTo = fs[docMap[i].filePath].links
        /\ \A l \in LoadIds :
             loads[l].done /\ loads[l].doc.isMarkdown /\ ~loads[l].doc.isError =>
               loads[l].doc.linksTo = fs[loads[l].path].links)
  /\ [][\A i \in 1..Len(docMap) : \A j \in 1..Len(docMap') :
          docMap'[j].filePath = docMap[i].filePath /\ docMap'[j].oid = docMap[i].oid
            => docMap'[j] = docMap[i]]_vars

\* a build is running, and the index holds a markdown node with a link to a
\* file that the index does not hold yet
C29_Witness ==
  /\ build.pc \notin {"idle", "done"}
  /\ \E i \in 1..Len(docMap) :
       /\ docMap[i].isMarkdown /\ ~docMap[i].isError
       /\ Len(docMap[i].linksTo) > 0
       /\ docMap[i].linksTo = fs[docMap[i].filePath].links
       /\ ~MapHas(docMap, docMap[i].linksTo[1].filePath)

\* ------------------------------------------------------------ orphans
\* the places of the returned list that hold an orphan: a related item that no
\* non-related item links to with a link that is not embedded
Orphans ==
  {n \in 1..Len(Returned) :
     Returned[n].type = "related" /\ QualifyingLinkers(Returned[n]) = {}}

\* C31: every orphan stands after every item that is not an orphan, and the
\* orphans stand in ascending order of their paths.
C31_OrphansLast ==
  context.called =>
    \A n \in Orphans :
      /\ \A k \in (1..Len(Returned)) \ Orphans : k < n
      /\ \A k \in Orphans : k < n => Returned[k].filePath < Returned[n].filePath

\* the classifications in the order of their priority
ClassificationOrder == <<"always", "auto", "agent", "manual">>
PlaceOf(type) == CHOOSE k \in 1..Len(ClassificationOrder) : ClassificationOrder[k] = type
NonRelated == {n \in 1..Len(Returned) : Returned[n].type # "related"}

\* C32: of two non-related items of the returned list, the one that stands
\* first has the classification of higher priority or, with the same
\* classification, the smaller path; so with either setting of hoist and with
\* any related items between them.
C32_NonRelatedByPriorityThenPath ==
  context.called =>
    \A i \in NonRelated : \A j \in NonRelated :
      i < j =>
        \/ PlaceOf(Returned[i].type) < PlaceOf(Returned[j].type)
        \/ /\ Returned[i].type = Returned[j].type
           /\ Returned[i].filePath < Returned[j].filePath

\* two non-related items whose classifications order them against their paths,
\* with a related item between them
C32_Witness ==
  /\ context.called
  /\ \E i \in NonRelated : \E j \in NonRelated :
       /\ i + 1 < j
       /\ Returned[i].type # Returned[j].type
       /\ Returned[i].filePath > Returned[j].filePath
       /\ \E k \in (i + 1)..(j - 1) : Returned[k].type = "related"

\* C33: the expansion loop ends with an empty queue, and no path was taken
\* from the queue twice.
C33_ExpansionEndsEachPathOnce ==
  context.called =>
    /\ context.returned.queue = <<>>
    /\ \A i, j \in 1..Len(context.returned.dequeued) :
         i # j => context.returned.dequeued[i] # context.returned.dequeued[j]
    /\ Range(context.returned.dequeued) \subseteq MapKeys(context.index)

\* a request was answered on an index in which two expanded documents link to
\* each other
C33_Witness ==
  /\ context.called
  /\ \E A, B \in Range(context.returned.dequeued) :
       /\ A # B
       /\ B \in Successors(context.index, A)
       /\ A \in Successors(context.index, B)

\* C34: an item of the returned list carries linkedFromPath and linkedViaAnchor
\* exactly when it is related, and then linkedFromPath is the path of another
\* item of the list whose document has a link to it that is not embedded and
\* carries the anchor text recorded as linkedViaAnchor.
C34_ProvenanceIffRelated ==
  context.called =>
    \A n \in 1..Len(Returned) :
      LET item == Returned[n] IN
        /\ (item.type = "related") <=> (item.linkedFromPath # 0)
        /\ (item.type = "related") <=> (item.linkedViaAnchor # 0)
        /\ item.type = "related" =>
             \E k \in 1..Len(Returned) :
               /\ Returned[k].filePath = item.linkedFromPath
               /\ \E l \in 1..Len(MapGet(context.index, item.linkedFromPath).linksTo) :
                    LET link == MapGet(context.index, item.linkedFromPath).linksTo[l] IN
                      /\ link.filePath = item.filePath
                      /\ ~link.isInline
                      /\ link.anchorText = item.linkedViaAnchor

\* the returned list holds a related item next to an item that is not related,
\* and the linker of the related item has an embedded link as well
C34_Witness ==
  /\ context.called
  /\ \E n, k \in 1..Len(Returned) :
       /\ Returned[n].type = "related"
       /\ Returned[n].linkedFromPath = Returned[k].filePath
       /\ Returned[k].linkedFromPath = 0
       /\ \E l \in 1..Len(MapGet(context.index, Returned[k].filePath).linksTo) :
            MapGet(context.index, Returned[k].filePath).linksTo[l].isInline

\* ------------------------------------------------------------ loads of an earlier cycle
\* C35: the step that completes a load started in an earlier build cycle
\* leaves the index and the in-flight table of the current cycle as they are.
C35_StaleLoadHasNoEffect ==
  [][\A l \in LoadIds :
       (~loads[l].done /\ loads'[l].done /\ loads[l].cycle # cycle)
         => /\ docMap' = docMap
            /\ pendingDocPromises' = pendingDocPromises]_vars

\* the paths that have a handle in the in-flight table
InFlight == {p \in Paths : pendingDocPromises[p] # 0}

\* C36: a handle in the in-flight table is the handle of a load that has not
\* completed, whether loads complete with a node or with an error placeholder,
\* and every handle is removed in the end; when no load is running, and so
\* when buildIndex() has returned, the in-flight table is empty; no path is
\* both in the index and in the table.
C36_HandlesRemoved ==
  /\ [](\A p \in InFlight : ~loads[pendingDocPromises[p]].done)
  /\ []((\A l \in LoadIds : loads[l].done) => InFlight = {})
  /\ [](build.pc = "done" => InFlight = {})
  /\ [](MapKeys(docMap) \cap InFlight = {})
  /\ \A p \in Paths : (p \in InFlight) ~> (p \notin InFlight)

\* buildIndex() has returned after loads that gave a node and loads that gave
\* an error placeholder, and the in-flight table is empty
C36_Witness ==
  /\ build.pc = "done"
  /\ InFlight = {}
  /\ \E l, k \in LoadIds :
       /\ loads[l].done /\ loads[l].doc.isError
       /\ loads[k].done /\ ~loads[k].doc.isError

\* ------------------------------------------------------------ provenance and insertion order
\* what the items record of the links that introduced them
Provenance(items) ==
  {<<items[n].filePath, items[n].linkedFromPath, items[n].linkedViaAnchor>> :
     n \in 1..Len(items)}

\* C37: on an index that holds the same documents in any other insertion
\* order, the same attached files and agent selection give every related item
\* the same linkedFromPath and linkedViaAnchor.
C37_ProvenanceOrderIndependent ==
  context.called =>
    \A order \in Orders(1..Len(context.index)) :
      Provenance(buildContextItems(Permuted(context.index, order), context.attachedFiles,
                                   context.relevantDocsByDescription, hoist).finalItems)
        = Provenance(Returned)

\* ------------------------------------------------------------ assembly during a rebuild
\* C38: the index that an assembly reads holds every file that a build
\* reaches, whether the call comes between two builds or while one runs: it is
\* never an emptied or partly filled index.
C38_AssemblySeesCompleteIndex ==
  context.called =>
    /\ MapKeys(context.index) = ReachableFiles(globFiles)
    /\ \A i \in 1..Len(context.index) :
         \E l \in LoadIds : loads[l].done /\ loads[l].doc = context.index[i]

\* ------------------------------------------------------------ the bounds of a range
\* an md-embed value A-B in which A, or a B other than "end", is written with
\* anything but digits
BoundsNotIntegers(value) ==
  LET parts == split(value, "-")
  IN /\ Len(parts) = 2
     /\ \/ ~isDigits(parts[1])
        \/ ~isDigits(parts[2]) /\ toLowerCase(parts[2]) # <<"e", "n", "d">>

\* C40: the range of an extracted link has an integer from, not negative, and
\* a to that is "end" or an integer, not negative; a link whose md-embed value
\* has a bound that is no integer, as with a fraction or an exponent, carries
\* no range.
C40_RangeBoundsIntegers ==
  \A i \in 1..Len(docMap) :
    \A k \in 1..Len(docMap[i].linksTo) :
      LET link == docMap[i].linksTo[k]
          range == link.inlineLinesRange
          written == WrittenAs(docMap[i], link).searchParams
      IN /\ ~range.isUndefined
              => /\ isInteger(range.from) /\ range.from.numerator >= 0
                 /\ range.toEnd \/ (isInteger(range.to) /\ range.to.numerator >= 0)
         /\ EMBED_PARAM \in DOMAIN written /\ BoundsNotIntegers(written[EMBED_PARAM])
              => range.isUndefined

====
